---- MODULE Spec2Model ----
(***************************************************************************)
(* FinePointRehab progress/state engine: the key-value store wrapper, the  *)
(* UTC date arithmetic, the session ledger and streak engine (both         *)
(* implementations in the repository), the adaptive-difficulty unlock      *)
(* engine, the achievement engine, the gamification ledger and the         *)
(* export / import / reset operations.                                     *)
(*                                                                         *)
(* JavaScript values are modelled as follows.                              *)
(*   string   a sequence of one-character strings, <<"4","2">> for "42"    *)
(*   number   an integer                                                   *)
(*   null     the empty sequence <<>>; a present value v is <<v>>          *)
(*   array    a sequence; object: a record                                 *)
(* A localStorage cell holds <<>> (no item) or <<v>>, v being the value    *)
(* JSON.parse gives for the stored item.                                   *)
(***************************************************************************)
EXTENDS Integers, Sequences, FiniteSets, TLC

VARIABLES
    ls,      \* window.localStorage: key -> cell
    impl,    \* which version of the progress module and of the achievements module is loaded
    now,     \* the system clock, in hours since the epoch (UTC)
    call,    \* the last call made: operation, argument, what it read, result
    gam,     \* the GamificationSystem instance (in-memory fields)
    log,     \* the recordSession calls made so far, with what each returned
    awarded, \* the achievement ids the checks have returned so far, in order
    transfers, \* how many imports, export/import round trips and resets a user has made
    unlocks, \* the tiers the unlock checks have returned as newly unlocked, in order
    timer,   \* the session timer createSession made: its closure variables
    enh      \* the SessionEnhancementSystem instance: its notification queue

vars == <<ls, impl, now, call, gam, log, awarded, transfers, unlocks, timer, enh>>

(***************************************************************************)
(* Bounds of the model.                                                    *)
(***************************************************************************)
MaxDay == 7          \* the calendar window is FirstDay .. FirstDay + MaxDay
NumExercises == 2    \* how many entries of the exercise registry are used
MaxSessions == 3     \* recorded sessions per behaviour
MaxScore == 2        \* scores are drawn from 0 .. MaxScore
MaxStreak == 5       \* updateStreak is not called once the streak is this long
MaxUnlockSessions == 6   \* sessions recorded with the unlock engine per behaviour
MaxAchSessions == 1  \* sessions recorded per behaviour of the achievement engine
MaxAwards == 4       \* awardSessionPoints calls per behaviour
MaxClockDays == 1    \* days the clock advances per behaviour
MaxPageSessions == 2 \* sessions finished per behaviour of the whole engine
MaxPageAwards == 1   \* point awards per behaviour of the whole engine
MaxTransfers == 1    \* imports, round trips and resets per behaviour of the whole engine

(***************************************************************************)
(* Strings and numbers.                                                    *)
(***************************************************************************)
DigitChars == <<"0", "1", "2", "3", "4", "5", "6", "7", "8", "9">>

IsDigit(c) == \E i \in 1..10 : DigitChars[i] = c

DigitVal(c) == (CHOOSE i \in 1..10 : DigitChars[i] = c) - 1

\* String(n) for a non-negative integer n
RECURSIVE NatToStr(_)
NatToStr(n) ==
    IF n < 10 THEN <<DigitChars[n + 1]>>
    ELSE NatToStr(n \div 10) \o <<DigitChars[(n % 10) + 1]>>

\* whether Number(s) is finite: "" (which is 0) or decimal digits
IsNumeric(s) == \A i \in 1..Len(s) : IsDigit(s[i])

\* Number(s) for a numeric string s
RECURSIVE StrToNat(_)
StrToNat(s) ==
    IF Len(s) = 0 THEN 0
    ELSE 10 * StrToNat(SubSeq(s, 1, Len(s) - 1)) + DigitVal(s[Len(s)])

\* String.prototype.padStart(2, '0')
PadStart2(s) == IF Len(s) < 2 THEN <<"0">> \o s ELSE s

STR_true == <<"t", "r", "u", "e">>
STR_false == <<"f", "a", "l", "s", "e">>
STR_empty == <<>>

(***************************************************************************)
(* Date arithmetic (src/js/utils/date.js).  Instants are hours since the   *)
(* epoch; the built-in Date getters are the proleptic Gregorian calendar.  *)
(***************************************************************************)
HOURS_PER_DAY == 24

\* Date.UTC(y, m - 1, d) in days since 1970-01-01
DaysFromCivil(y, m, d) ==
    LET yy == IF m <= 2 THEN y - 1 ELSE y
        era == yy \div 400
        yoe == yy - era * 400
        mp == IF m > 2 THEN m - 3 ELSE m + 9
        doy == (153 * mp + 2) \div 5 + d - 1
        doe == yoe * 365 + yoe \div 4 - yoe \div 100 + doy
    IN  era * 146097 + doe - 719468

\* getUTCFullYear / getUTCMonth + 1 / getUTCDate of the day with that number
CivilFromDays(n) ==
    LET OfMonth(era, yoe, d, m) ==
            [y |-> yoe + era * 400 + (IF m <= 2 THEN 1 ELSE 0), m |-> m, d |-> d]
        OfMp(era, yoe, doy, mp) ==
            OfMonth(era, yoe, doy - (153 * mp + 2) \div 5 + 1,
                    IF mp < 10 THEN mp + 3 ELSE mp - 9)
        OfDoy(era, yoe, doy) == OfMp(era, yoe, doy, (5 * doy + 2) \div 153)
        OfYoe(era, doe, yoe) ==
            OfDoy(era, yoe, doe - (365 * yoe + yoe \div 4 - yoe \div 100))
        OfDoe(era, doe) ==
            OfYoe(era, doe,
                  (doe - doe \div 1460 + doe \div 36524 - doe \div 146096) \div 365)
        OfEra(z, era) == OfDoe(era, z - era * 146097)
        OfZ(z) == OfEra(z, z \div 146097)
    IN  OfZ(n + 719468)

\* getUTCDay of the day with that number: 0 = Sunday .. 6 = Saturday
UTCDay(n) == (n + 4) % 7

\* whether s reads YYYY-MM-DD with a month and a day of that month
IsYMD(s) ==
    /\ Len(s) = 10
    /\ s[5] = "-" /\ s[8] = "-"
    /\ \A i \in {1, 2, 3, 4, 6, 7, 9, 10} : IsDigit(s[i])
    /\ LET IsDate(y, m, d) ==
               /\ m \in 1..12 /\ d >= 1
               /\ CivilFromDays(DaysFromCivil(y, m, d)) = [y |-> y, m |-> m, d |-> d]
       IN  IsDate(StrToNat(SubSeq(s, 1, 4)), StrToNat(SubSeq(s, 6, 7)),
                  StrToNat(SubSeq(s, 9, 10)))

\* new Date(`${ymd}T00:00:00.000Z`), in days since the epoch
DayNumberOfYMD(s) ==
    DaysFromCivil(StrToNat(SubSeq(s, 1, 4)), StrToNat(SubSeq(s, 6, 7)),
                  StrToNat(SubSeq(s, 9, 10)))

\* A date-like input: a Date object [k |-> "Date", t |-> hours] or a string
\* [k |-> "string", s |-> text]; new Date(text) of a text that is no date is
\* an Invalid Date.
DateLikeValid(dl) == IF dl.k = "Date" THEN TRUE ELSE IsYMD(dl.s)

DateLikeDay(dl) ==
    IF dl.k = "Date" THEN dl.t \div HOURS_PER_DAY ELSE DayNumberOfYMD(dl.s)

\* toYMD: the UTC calendar day of a valid date-like, as "YYYY-MM-DD"
toYMD(dl) ==
    LET Format(c) ==
            NatToStr(c.y) \o <<"-">> \o PadStart2(NatToStr(c.m)) \o <<"-">>
              \o PadStart2(NatToStr(c.d))
    IN  Format(CivilFromDays(DateLikeDay(dl)))

\* Math.round(n / d) for d > 0
RoundDiv(n, d) == (2 * n + d) \div (2 * d)

\* dayDiff of two valid YYYY-MM-DD strings: days from ymdA to ymdB
dayDiff(ymdA, ymdB) ==
    RoundDiv(DayNumberOfYMD(ymdB) * HOURS_PER_DAY - DayNumberOfYMD(ymdA) * HOURS_PER_DAY,
             HOURS_PER_DAY)

\* dayOfWeekFromYMD: 0 = Sunday .. 6 = Saturday
dayOfWeekFromYMD(ymd) == UTCDay(DayNumberOfYMD(ymd))

(***************************************************************************)
(* Static registries.                                                      *)
(***************************************************************************)
\* Object.keys(EXERCISES)
EXERCISE_IDS ==
    <<"bubble", "comet", "crosshair", "saccade", "rhythm", "precision",
      "maze", "sort", "trace", "sequence", "mirror", "scanner">>

\* the registry entries the model uses, in registry order
RegistrySeq == SubSeq(EXERCISE_IDS, 1, IF NumExercises < Len(EXERCISE_IDS)
                                       THEN NumExercises ELSE Len(EXERCISE_IDS))

Registry == {RegistrySeq[i] : i \in 1..Len(RegistrySeq)}

\* an exercise id callers may pass that is not in the registry
UNREGISTERED_ID == "typing"

ExerciseArgs == Registry \cup {UNREGISTERED_ID}

\* EXERCISES[id].difficulties, the same for every exercise
DIFFICULTIES == <<"easy", "medium", "hard">>

DifficultySet == {DIFFICULTIES[i] : i \in 1..Len(DIFFICULTIES)}

\* Object.keys(ACHIEVEMENTS), first definition of achievements.js
ACHIEVEMENT_IDS ==
    <<"firstSteps", "consistent", "dedicated", "personalBest", "explorer",
      "perfect_5", "streak_10", "hard_clear">>

AchievementSet == {ACHIEVEMENT_IDS[i] : i \in 1..Len(ACHIEVEMENT_IDS)}

(***************************************************************************)
(* localStorage and the storage wrapper (utils.js).                        *)
(***************************************************************************)
PREFIX == "FPR_v1_"

sessionKey(id) == "exercise:" \o id \o ":sessions"
bestKey(id) == "exercise:" \o id \o ":best"
sessionHistoryKey(id) == "sessions:" \o id
achievementDateKey(id) == "achievement_" \o id \o "_date"
unlockKey(exerciseId, difficulty) == "FPR_v1_unlock:" \o exerciseId \o ":" \o difficulty
perfKey(exerciseId, difficulty) == "FPR_v1_perf:" \o exerciseId \o ":" \o difficulty

\* keys written through the storage wrapper (the wrapper adds PREFIX)
WrapperKeys ==
    {"totalSessions", "streak", "lastActiveDate", "achievements",
     "newPersonalBest", "tried"}
    \cup {sessionKey(id) : id \in ExerciseArgs}
    \cup {bestKey(id) : id \in ExerciseArgs}
    \cup {sessionHistoryKey(id) : id \in ExerciseArgs}
    \cup {achievementDateKey(a) : a \in AchievementSet}
    \cup {unlockKey(e, d) : e \in Registry, d \in DifficultySet}
    \cup {perfKey(e, d) : e \in Registry, d \in DifficultySet}

\* keys the GamificationSystem writes with localStorage.setItem
TOTAL_POINTS_KEY == "FPR_v1_totalPoints"
SESSIONS_COMPLETED_KEY == "FPR_v1_sessionsCompleted"

\* every localStorage key that starts with PREFIX
PrefixedKeys ==
    {PREFIX \o k : k \in WrapperKeys} \cup {TOTAL_POINTS_KEY, SESSIONS_COMPLETED_KEY}

\* a key of another application in the same origin's localStorage
OTHER_KEY == "other_app_data"

\* the condition of localStorage itself, kept with the store: <<>> where it
\* works, LS_UNAVAILABLE where getLS() returns null or setItem always throws,
\* LS_FULL where setItem throws for everything but the probe of isAvailable
LS_STATE == "(localStorage)"
LS_UNAVAILABLE == "unavailable"
LS_FULL == "full"

LSKeys == PrefixedKeys \cup {OTHER_KEY, LS_STATE}

EmptyStorage == [k \in LSKeys |-> <<>>]

\* storage.isAvailable(): the probe item can be set and removed
storage_isAvailable(s) == s[LS_STATE] # <<LS_UNAVAILABLE>>

\* storage.get(key, defaultValue): the parsed item or the default
storage_get(s, key, defaultValue) ==
    IF ~storage_isAvailable(s) THEN defaultValue
    ELSE IF Len(s[PREFIX \o key]) = 0 THEN defaultValue ELSE s[PREFIX \o key]

\* storage.getInt(key, fallback), of a key whose item is a string
storage_getInt(s, key, fallback) ==
    LET ToInt(value) ==
            IF Len(value) = 0 THEN fallback
            ELSE IF IsNumeric(value[1]) THEN StrToNat(value[1])
            ELSE fallback
    IN  ToInt(storage_get(s, key, <<>>))

\* storage.set(key, value): nothing is written where the store is not
\* available or setItem throws
storage_set(s, key, value) ==
    IF ~storage_isAvailable(s) THEN s
    ELSE IF s[LS_STATE] = <<LS_FULL>> THEN s
    ELSE [s EXCEPT ![PREFIX \o key] = <<value>>]

\* storage.remove(key)
storage_remove(s, key) ==
    IF ~storage_isAvailable(s) THEN s ELSE [s EXCEPT ![PREFIX \o key] = <<>>]

\* a wipe that empties the whole store, as localStorage.clear() would
storage_clearAll_everything(s) == [k \in LSKeys |-> <<>>]

\* storage.clearAll / clearAllFPRData: removeItem of every key that starts with PREFIX
storage_clearAll(s) ==
    IF ~storage_isAvailable(s) THEN s
    ELSE [k \in LSKeys |-> IF k \in PrefixedKeys THEN <<>> ELSE s[k]]

\* clearAllFPRData(), of a localStorage whose length and key(i) answer: the
\* keys that start with PREFIX are collected, then removed
clearAllFPRData(s) ==
    LET keysToDelete == {key \in LSKeys : key \in PrefixedKeys /\ Len(s[key]) > 0}
    IN  [k \in LSKeys |-> IF k \in keysToDelete THEN <<>> ELSE s[k]]

(***************************************************************************)
(* Values of an import / export document: [t |-> type, v |-> value].       *)
(***************************************************************************)
JNum(n) == [t |-> "number", v |-> n]
JObj(f) == [t |-> "object", v |-> f]
JArr(a) == [t |-> "array", v |-> a]
JStr(chars) == [t |-> "string", v |-> chars]
JNull == [t |-> "null", v |-> 0]
JUndefined == [t |-> "undefined", v |-> 0]

\* key in obj
HasField(obj, key) == obj.t = "object" /\ key \in DOMAIN obj.v

\* obj[key]
Field(obj, key) == IF HasField(obj, key) THEN obj.v[key] ELSE JUndefined

\* typeof x
TypeOf(x) == IF x.t \in {"null", "array"} THEN "object" ELSE x.t

\* !!x
Truthy(x) ==
    IF x.t = "number" THEN x.v # 0
    ELSE IF x.t = "string" THEN Len(x.v) > 0
    ELSE x.t \in {"object", "array"}


\* String(value)
JString(x) ==
    IF x.t = "number" THEN NatToStr(x.v)
    ELSE IF x.t = "string" THEN x.v
    ELSE IF x.t = "null" THEN <<"n", "u", "l", "l">>
    ELSE IF x.t = "undefined" THEN <<"u", "n", "d", "e", "f", "i", "n", "e", "d">>
    ELSE IF x.t = "array" THEN <<>>
    ELSE <<"[", "o", "b", "j", "e", "c", "t", "]">>

(***************************************************************************)
(* JSON texts kept in string cells.  The text of a JSON value x (an array  *)
(* of strings or of entries, a number, null) is [json |-> x]: JSON.parse   *)
(* of JSON.stringify(x) is x for these values.                             *)
(***************************************************************************)
JSON_stringify(x) == [json |-> x]

JSON_parse(text) == text.json

\* the literal '[]'
JSON_emptyArray == JSON_stringify(JArr(<<>>))

\* safeParse(storage.get(key), fallback) of part_003: JSON.parse(str || 'null')
safeParse(cell) == IF Len(cell) = 0 THEN JNull ELSE JSON_parse(cell[1])

\* JSON.parse(storage.get(key) || '[]')
parseOrEmpty(cell) == IF Len(cell) = 0 THEN JArr(<<>>) ELSE JSON_parse(cell[1])

\* the result of an operation: the store it leaves, what it returns, and
\* whether it ended by throwing
Result(s, ret) == [ls |-> s, ret |-> ret, threw |-> FALSE]
Thrown(s) == [ls |-> s, ret |-> <<>>, threw |-> TRUE]

(***************************************************************************)
(* The session ledger and streak engine, src/unnamed/part_003.             *)
(***************************************************************************)
HISTORY_LIMIT == 100

\* { ...a, ...b }
Spread(a, b) ==
    [k \in DOMAIN a \cup DOMAIN b |-> IF k \in DOMAIN b THEN b[k] ELSE a[k]]

\* new Date(t).toISOString() of an instant on the hour
toISOString(t) ==
    toYMD([k |-> "Date", t |-> t]) \o <<"T">> \o PadStart2(NatToStr(t % HOURS_PER_DAY))
      \o <<":", "0", "0", ":", "0", "0", ".", "0", "0", "0", "Z">>

\* updateStreak with one branch changed: a second call on the same day counts a
\* day more ("sameDay"), the day after the last active day counts none
\* ("nextDay"), or an input that is no date starts a streak ("guessDate")
updateStreak_variant(s, currentDateLike, changed) ==
    LET Write(currentYMD, v) ==
            Result(storage_set(storage_set(s, "streak", NatToStr(v)),
                               "lastActiveDate", currentYMD), v)
        Next(streak, safeDiff, isCurrentMonday, lastWeekday) ==
            IF safeDiff = 0 THEN (IF changed = "sameDay" THEN streak + 1 ELSE streak)
            ELSE IF safeDiff = 1 THEN (IF changed = "nextDay" THEN streak ELSE streak + 1)
            ELSE IF safeDiff >= 2 /\ safeDiff <= 3
            THEN IF isCurrentMonday /\ lastWeekday \in {5, 6, 0}
                 THEN streak + 1 ELSE 1
            ELSE 1
        Compare(currentYMD, streak, safeDiff, isCurrentMonday, lastWeekday) ==
            IF safeDiff < 0 THEN Result(s, streak)
            ELSE Write(currentYMD, Next(streak, safeDiff, isCurrentMonday, lastWeekday))
        Update(currentYMD, lastYMD, streak) ==
            IF Len(lastYMD) = 0 \/ Len(lastYMD[1]) = 0 THEN Write(currentYMD, 1)
            ELSE IF ~IsYMD(lastYMD[1]) THEN Thrown(s)
            ELSE Compare(currentYMD, streak, dayDiff(lastYMD[1], currentYMD),
                         dayOfWeekFromYMD(currentYMD) = 1,
                         dayOfWeekFromYMD(lastYMD[1]))
    IN  IF ~DateLikeValid(currentDateLike)
        THEN (IF changed = "guessDate"
              THEN Result(storage_set(s, "streak", NatToStr(1)), 1) ELSE Thrown(s))
        ELSE Update(toYMD(currentDateLike), storage_get(s, "lastActiveDate", <<>>),
                    storage_getInt(s, "streak", 0))

updateStreak_sameDayCounts(s, currentDateLike) ==
    updateStreak_variant(s, currentDateLike, "sameDay")

updateStreak_nextDayKeeps(s, currentDateLike) ==
    updateStreak_variant(s, currentDateLike, "nextDay")

updateStreak_guessesDate(s, currentDateLike) ==
    updateStreak_variant(s, currentDateLike, "guessDate")

\* updateStreak with the amnesty granted on the last weekday alone, whatever
\* the weekday of the current date
updateStreak_anyWeekday(s, currentDateLike) ==
    LET Write(currentYMD, v) ==
            Result(storage_set(storage_set(s, "streak", NatToStr(v)),
                               "lastActiveDate", currentYMD), v)
        Next(streak, safeDiff, isCurrentMonday, lastWeekday) ==
            IF safeDiff = 0 THEN streak
            ELSE IF safeDiff = 1 THEN streak + 1
            ELSE IF safeDiff >= 2 /\ safeDiff <= 3
            THEN IF lastWeekday \in {5, 6, 0}
                 THEN streak + 1 ELSE 1
            ELSE 1
        Compare(currentYMD, streak, safeDiff, isCurrentMonday, lastWeekday) ==
            IF safeDiff < 0 THEN Result(s, streak)
            ELSE Write(currentYMD, Next(streak, safeDiff, isCurrentMonday, lastWeekday))
        Update(currentYMD, lastYMD, streak) ==
            IF Len(lastYMD) = 0 \/ Len(lastYMD[1]) = 0 THEN Write(currentYMD, 1)
            ELSE IF ~IsYMD(lastYMD[1]) THEN Thrown(s)
            ELSE Compare(currentYMD, streak, dayDiff(lastYMD[1], currentYMD),
                         dayOfWeekFromYMD(currentYMD) = 1,
                         dayOfWeekFromYMD(lastYMD[1]))
    IN  IF ~DateLikeValid(currentDateLike) THEN Thrown(s)
        ELSE Update(toYMD(currentDateLike), storage_get(s, "lastActiveDate", <<>>),
                    storage_getInt(s, "streak", 0))

\* updateStreak(currentDateLike), part_003
updateStreak(s, currentDateLike) ==
    LET Write(currentYMD, v) ==
            Result(storage_set(storage_set(s, "streak", NatToStr(v)),
                               "lastActiveDate", currentYMD), v)
        Next(streak, safeDiff, isCurrentMonday, lastWeekday) ==
            IF safeDiff = 0 THEN streak
            ELSE IF safeDiff = 1 THEN streak + 1
            ELSE IF safeDiff >= 2 /\ safeDiff <= 3
            THEN IF isCurrentMonday /\ lastWeekday \in {5, 6, 0}
                 THEN streak + 1 ELSE 1
            ELSE 1
        Compare(currentYMD, streak, safeDiff, isCurrentMonday, lastWeekday) ==
            IF safeDiff < 0 THEN Result(s, streak)
            ELSE Write(currentYMD, Next(streak, safeDiff, isCurrentMonday, lastWeekday))
        Update(currentYMD, lastYMD, streak) ==
            IF Len(lastYMD) = 0 \/ Len(lastYMD[1]) = 0 THEN Write(currentYMD, 1)
            ELSE IF ~IsYMD(lastYMD[1]) THEN Thrown(s)
            ELSE Compare(currentYMD, streak, dayDiff(lastYMD[1], currentYMD),
                         dayOfWeekFromYMD(currentYMD) = 1,
                         dayOfWeekFromYMD(lastYMD[1]))
    IN  IF ~DateLikeValid(currentDateLike) THEN Thrown(s)
        ELSE Update(toYMD(currentDateLike), storage_get(s, "lastActiveDate", <<>>),
                    storage_getInt(s, "streak", 0))

\* recordSession with one step changed: a score equal to the stored best is a
\* new best ("bestOrEqual"), the streak is left alone ("streakSkipped"), a full
\* history keeps its oldest entries ("oldestKept"), or the extras are spread
\* over the core fields ("extrasWin")
recordSession_variant(s, exerciseId, difficulty, score, extras, t, changed) ==
    LET Return(s4, u, isNewBest, newTotalSessions, sessionEntry) ==
            IF u.threw THEN Thrown(s4)
            ELSE Result(u.ls, [isNewBest |-> isNewBest,
                               totalSessions |-> newTotalSessions,
                               sessionEntry |-> sessionEntry])
        Streak(s4, isNewBest, newTotalSessions, sessionEntry) ==
            Return(s4, IF changed = "streakSkipped" THEN Result(s4, <<>>)
                       ELSE updateStreak(s4, [k |-> "Date", t |-> t]),
                   isNewBest, newTotalSessions, sessionEntry)
        Best(s3, isNewBest, newTotalSessions, sessionEntry) ==
            Streak(IF isNewBest
                   THEN storage_set(storage_set(s3, bestKey(exerciseId), NatToStr(score)),
                                    "newPersonalBest", STR_true)
                   ELSE s3,
                   isNewBest, newTotalSessions, sessionEntry)
        Current(s3, newTotalSessions, sessionEntry) ==
            Best(s3, IF changed = "bestOrEqual"
                     THEN score >= storage_getInt(s3, bestKey(exerciseId), 0)
                     ELSE score > storage_getInt(s3, bestKey(exerciseId), 0),
                 newTotalSessions, sessionEntry)
        Total(s2, newTotalSessions, sessionEntry) ==
            Current(storage_set(s2, "totalSessions", NatToStr(newTotalSessions)),
                    newTotalSessions, sessionEntry)
        Count(s1, sessionEntry) ==
            Total(storage_set(s1, sessionKey(exerciseId),
                              NatToStr(storage_getInt(s1, sessionKey(exerciseId), 0) + 1)),
                  storage_getInt(s1, "totalSessions", 0) + 1, sessionEntry)
        Cap(pushed) ==
            IF Len(pushed) > HISTORY_LIMIT
            THEN IF changed = "oldestKept" THEN SubSeq(pushed, 1, HISTORY_LIMIT)
                 ELSE SubSeq(pushed, Len(pushed) - HISTORY_LIMIT + 1, Len(pushed))
            ELSE pushed
        History(parsed, sessionEntry) ==
            IF parsed.t # "array" THEN Thrown(s)
            ELSE Count(storage_set(s, sessionHistoryKey(exerciseId),
                                   JSON_stringify(JArr(Cap(Append(parsed.v, sessionEntry))))),
                       sessionEntry)
    IN  History(parseOrEmpty(storage_get(s, sessionHistoryKey(exerciseId), <<>>)),
                IF changed = "extrasWin"
                THEN Spread([id |-> exerciseId, difficulty |-> difficulty,
                             score |-> score, timestamp |-> t,
                             date |-> toISOString(t)], extras)
                ELSE Spread(extras, [id |-> exerciseId, difficulty |-> difficulty,
                                     score |-> score, timestamp |-> t,
                                     date |-> toISOString(t)]))

\* recordSession reporting a new best also when the score equals the stored best
recordSession_bestOrEqual(s, exerciseId, difficulty, score, extras, t) ==
    recordSession_variant(s, exerciseId, difficulty, score, extras, t, "bestOrEqual")

\* recordSession leaving streak and lastActiveDate as they were
recordSession_streakSkipped(s, exerciseId, difficulty, score, extras, t) ==
    recordSession_variant(s, exerciseId, difficulty, score, extras, t, "streakSkipped")

\* recordSession dropping the newest entry of a full history
recordSession_oldestKept(s, exerciseId, difficulty, score, extras, t) ==
    recordSession_variant(s, exerciseId, difficulty, score, extras, t, "oldestKept")

\* recordSession spreading the extras over the core fields
recordSession_extrasWin(s, exerciseId, difficulty, score, extras, t) ==
    recordSession_variant(s, exerciseId, difficulty, score, extras, t, "extrasWin")

\* recordSession(exerciseId, difficulty, score, extras), part_003, at clock t
recordSession(s, exerciseId, difficulty, score, extras, t) ==
    LET Return(s4, u, isNewBest, newTotalSessions, sessionEntry) ==
            IF u.threw THEN Thrown(s4)
            ELSE Result(u.ls, [isNewBest |-> isNewBest,
                               totalSessions |-> newTotalSessions,
                               sessionEntry |-> sessionEntry])
        Streak(s4, isNewBest, newTotalSessions, sessionEntry) ==
            Return(s4, updateStreak(s4, [k |-> "Date", t |-> t]), isNewBest,
                   newTotalSessions, sessionEntry)
        Best(s3, isNewBest, newTotalSessions, sessionEntry) ==
            Streak(IF isNewBest
                   THEN storage_set(storage_set(s3, bestKey(exerciseId), NatToStr(score)),
                                    "newPersonalBest", STR_true)
                   ELSE s3,
                   isNewBest, newTotalSessions, sessionEntry)
        Current(s3, newTotalSessions, sessionEntry) ==
            Best(s3, score > storage_getInt(s3, bestKey(exerciseId), 0),
                 newTotalSessions, sessionEntry)
        Total(s2, newTotalSessions, sessionEntry) ==
            Current(storage_set(s2, "totalSessions", NatToStr(newTotalSessions)),
                    newTotalSessions, sessionEntry)
        Count(s1, sessionEntry) ==
            Total(storage_set(s1, sessionKey(exerciseId),
                              NatToStr(storage_getInt(s1, sessionKey(exerciseId), 0) + 1)),
                  storage_getInt(s1, "totalSessions", 0) + 1, sessionEntry)
        Cap(pushed) ==
            IF Len(pushed) > HISTORY_LIMIT
            THEN SubSeq(pushed, Len(pushed) - HISTORY_LIMIT + 1, Len(pushed))
            ELSE pushed
        History(parsed, sessionEntry) ==
            IF parsed.t # "array" THEN Thrown(s)
            ELSE Count(storage_set(s, sessionHistoryKey(exerciseId),
                                   JSON_stringify(JArr(Cap(Append(parsed.v, sessionEntry))))),
                       sessionEntry)
    IN  History(parseOrEmpty(storage_get(s, sessionHistoryKey(exerciseId), <<>>)),
                Spread(extras, [id |-> exerciseId, difficulty |-> difficulty,
                                score |-> score, timestamp |-> t,
                                date |-> toISOString(t)]))

\* the exercises object both exportData build from the registry
exportedExercises(s) ==
    LET included == {id \in Registry :
                        \/ storage_getInt(s, sessionKey(id), 0) > 0
                        \/ storage_getInt(s, bestKey(id), 0) > 0}
    IN  JObj([id \in included |->
                JObj([sessions |-> JNum(storage_getInt(s, sessionKey(id), 0)),
                      best |-> JNum(storage_getInt(s, bestKey(id), 0))])])

\* exportData(), part_003, at clock t
exportData(s, t) ==
    JObj([exercises |-> exportedExercises(s),
          totalSessions |-> JNum(storage_getInt(s, "totalSessions", 0)),
          streak |-> JNum(storage_getInt(s, "streak", 0)),
          achievements |-> safeParse(storage_get(s, "achievements", <<>>)),
          exportDate |-> JStr(toISOString(t)),
          version |-> JNum(1)])

\* error.message of the TypeError a property read of null or undefined throws
TYPE_ERROR == "Cannot read properties of null"

\* the order Object.entries walks the exercises of a document
ImportOrder == RegistrySeq \o <<UNREGISTERED_ID>>

\* Math.max(...nums) over the number values of a legacy best object, 0 if none
MaxOfNumbers(bestVal) ==
    LET nums == {bestVal.v[k].v : k \in {j \in DOMAIN bestVal.v : bestVal.v[j].t = "number"}}
    IN  IF nums = {} THEN 0 ELSE CHOOSE n \in nums : \A m \in nums : m <= n

\* one turn of the for..of loop of importData, part_003
importExercise(s, exerciseId, exerciseData) ==
    IF TypeOf(exerciseData) # "object" \/ exerciseData.t = "null" THEN Thrown(s)
    ELSE
    LET sessions == Field(exerciseData, "sessions")
        s1 == IF HasField(exerciseData, "sessions")
              THEN storage_set(s, sessionKey(exerciseId),
                               IF Truthy(sessions) THEN JString(sessions) ELSE <<"0">>)
              ELSE s
        bestVal == Field(exerciseData, "best")
        bestScore == IF bestVal.t = "number" THEN bestVal.v
                     ELSE IF bestVal.t = "object" THEN MaxOfNumbers(bestVal)
                     ELSE 0
    IN  IF HasField(exerciseData, "best")
        THEN Result(storage_set(s1, bestKey(exerciseId), NatToStr(bestScore)), <<>>)
        ELSE Result(s1, <<>>)

\* the for..of loop of importData from the i-th entry on
RECURSIVE importExercises(_, _, _)
importExercises(s, exercises, i) ==
    IF i > Len(ImportOrder) THEN Result(s, <<>>)
    ELSE IF ImportOrder[i] \notin DOMAIN exercises.v THEN importExercises(s, exercises, i + 1)
    ELSE LET r == importExercise(s, ImportOrder[i], exercises.v[ImportOrder[i]])
         IN  IF r.threw THEN r ELSE importExercises(r.ls, exercises, i + 1)

\* importGlobals dropping the unlocked tiers before it writes the global fields
importGlobals_relocking(s, data) ==
    LET unlockKeys == {PREFIX \o unlockKey(e, d) : e \in Registry, d \in DifficultySet}
        s0 == [k \in DOMAIN s |-> IF k \in unlockKeys THEN <<>> ELSE s[k]]
        s1 == IF HasField(data, "totalSessions")
              THEN storage_set(s0, "totalSessions", JString(Field(data, "totalSessions")))
              ELSE s0
        s2 == IF HasField(data, "streak")
              THEN storage_set(s1, "streak", JString(Field(data, "streak")))
              ELSE s1
    IN  IF HasField(data, "achievements")
        THEN storage_set(s2, "achievements", JSON_stringify(Field(data, "achievements")))
        ELSE s2

\* the writes of the global fields that end both importData
importGlobals(s, data) ==
    LET s1 == IF HasField(data, "totalSessions")
              THEN storage_set(s, "totalSessions", JString(Field(data, "totalSessions")))
              ELSE s
        s2 == IF HasField(data, "streak")
              THEN storage_set(s1, "streak", JString(Field(data, "streak")))
              ELSE s1
    IN  IF HasField(data, "achievements")
        THEN storage_set(s2, "achievements", JSON_stringify(Field(data, "achievements")))
        ELSE s2

\* importData(data), part_003
importData(s, data) ==
    IF ~Truthy(data) \/ TypeOf(data) # "object"
    THEN Result(s, [success |-> FALSE, error |-> "Invalid import data"])
    ELSE
    LET exercises == Field(data, "exercises")
        r == IF exercises.t = "object" THEN importExercises(s, exercises, 1)
             ELSE Result(s, <<>>)
    IN  IF r.threw THEN Result(r.ls, [success |-> FALSE, error |-> TYPE_ERROR])
        ELSE Result(importGlobals(r.ls, data), [success |-> TRUE, error |-> ""])

\* the forEach of resetProgress over the registry, from the i-th id on
RECURSIVE resetExercises(_, _)
resetExercises(s, i) ==
    IF i > Len(RegistrySeq) THEN s
    ELSE LET id == RegistrySeq[i]
         IN  resetExercises(
                 storage_set(storage_set(storage_set(s, sessionKey(id), <<"0">>),
                                         bestKey(id), <<"0">>),
                             sessionHistoryKey(id), JSON_emptyArray),
                 i + 1)

\* resetProgress(), part_003
resetProgress(s) ==
    LET s1 == storage_set(s, "totalSessions", <<"0">>)
        s2 == storage_set(s1, "streak", <<"0">>)
        s3 == storage_set(s2, "lastActiveDate", STR_empty)
        s4 == storage_set(s3, "achievements", JSON_emptyArray)
    IN  Result(storage_remove(resetExercises(s4, 1), "newPersonalBest"),
               [success |-> TRUE])

\* getStats(), part_003
getStats(s) ==
    Result(s, [totalSessions |-> storage_getInt(s, "totalSessions", 0),
               streak |-> storage_getInt(s, "streak", 0),
               achievements |-> safeParse(storage_get(s, "achievements", <<>>)),
               lastActiveDate |-> storage_get(s, "lastActiveDate", <<>>)])

\* arr.slice(-n): the last n elements, or all of them where n is 0
SliceLast(arr, n) ==
    IF n = 0 \/ n >= Len(arr) THEN arr ELSE SubSeq(arr, Len(arr) - n + 1, Len(arr))

\* arr.reverse()
Reverse(arr) == [i \in 1..Len(arr) |-> arr[Len(arr) + 1 - i]]

\* getSessionHistory(exerciseId, limit), part_003
getSessionHistory(s, exerciseId, limit) ==
    LET Recent(history) ==
            IF history.t # "array" THEN Thrown(s)
            ELSE Result(s, Reverse(SliceLast(history.v, limit)))
    IN  Recent(parseOrEmpty(storage_get(s, sessionHistoryKey(exerciseId), <<>>)))

\* checkAndClearPersonalBestFlag(), the same in both modules
checkAndClearPersonalBestFlag(s) ==
    IF storage_get(s, "newPersonalBest", <<>>) = <<STR_true>>
    THEN Result(storage_remove(s, "newPersonalBest"), TRUE)
    ELSE Result(s, FALSE)

(***************************************************************************)
(* The older ledger, src/js/progress.js.                                   *)
(***************************************************************************)
\* updateStreak(currentDateLike), progress.js
progress_updateStreak(s, currentDateLike) ==
    LET Write(currentYMD, v) ==
            Result(storage_set(storage_set(s, "streak", NatToStr(v)),
                               "lastActiveDate", currentYMD), v)
        Next(streak, diff, currentDay, lastWeekday) ==
            IF diff = 0 THEN streak
            ELSE IF diff = 1 THEN streak + 1
            ELSE IF diff >= 2 /\ diff <= 3
            THEN IF currentDay = 1
                 THEN IF lastWeekday \in {5, 6, 0} THEN streak + 1 ELSE 1
                 ELSE 1
            ELSE IF diff > 3 THEN 1
            ELSE IF streak > 1 THEN streak ELSE 1
        Update(currentYMD, lastYMD, streak) ==
            IF Len(lastYMD) = 0 \/ Len(lastYMD[1]) = 0 THEN Write(currentYMD, 1)
            ELSE IF ~IsYMD(lastYMD[1]) THEN Thrown(s)
            ELSE Write(currentYMD,
                       Next(streak, dayDiff(lastYMD[1], currentYMD),
                            UTCDay(DayNumberOfYMD(currentYMD)),
                            UTCDay(DayNumberOfYMD(lastYMD[1]))))
    IN  IF ~DateLikeValid(currentDateLike) THEN Thrown(s)
        ELSE Update(toYMD(currentDateLike), storage_get(s, "lastActiveDate", <<>>),
                    storage_getInt(s, "streak", 0))

\* recordSession taking the new total from the exercise's own counter
progress_recordSession_totalFromExercise(s, exerciseId, difficulty, score, t) ==
    LET Return(s4, u, isNewBest, newTotalSessions) ==
            IF u.threw THEN Thrown(s4)
            ELSE Result(u.ls, [isNewBest |-> isNewBest, totalSessions |-> newTotalSessions])
        Streak(s4, isNewBest, newTotalSessions) ==
            Return(s4, progress_updateStreak(s4, [k |-> "Date", t |-> t]), isNewBest,
                   newTotalSessions)
        Best(s3, isNewBest, newTotalSessions) ==
            Streak(IF isNewBest
                   THEN storage_set(storage_set(s3, bestKey(exerciseId), NatToStr(score)),
                                    "newPersonalBest", STR_true)
                   ELSE s3,
                   isNewBest, newTotalSessions)
        Current(s3, newTotalSessions) ==
            Best(s3, score > storage_getInt(s3, bestKey(exerciseId), 0), newTotalSessions)
        Total(s2, newTotalSessions) ==
            Current(storage_set(s2, "totalSessions", NatToStr(newTotalSessions)),
                    newTotalSessions)
        Sessions(s2, currentSessions) ==
            Total(s2, currentSessions + 1)
        Count(currentSessions) ==
            Sessions(storage_set(s, sessionKey(exerciseId), NatToStr(currentSessions + 1)),
                     currentSessions)
    IN  Count(storage_getInt(s, sessionKey(exerciseId), 0))

\* recordSession(exerciseId, difficulty, score), progress.js, at clock t
progress_recordSession(s, exerciseId, difficulty, score, t) ==
    LET Return(s4, u, isNewBest, newTotalSessions) ==
            IF u.threw THEN Thrown(s4)
            ELSE Result(u.ls, [isNewBest |-> isNewBest, totalSessions |-> newTotalSessions])
        Streak(s4, isNewBest, newTotalSessions) ==
            Return(s4, progress_updateStreak(s4, [k |-> "Date", t |-> t]), isNewBest,
                   newTotalSessions)
        Best(s3, isNewBest, newTotalSessions) ==
            Streak(IF isNewBest
                   THEN storage_set(storage_set(s3, bestKey(exerciseId), NatToStr(score)),
                                    "newPersonalBest", STR_true)
                   ELSE s3,
                   isNewBest, newTotalSessions)
        Current(s3, newTotalSessions) ==
            Best(s3, score > storage_getInt(s3, bestKey(exerciseId), 0), newTotalSessions)
        Total(s2, newTotalSessions) ==
            Current(storage_set(s2, "totalSessions", NatToStr(newTotalSessions)),
                    newTotalSessions)
        Sessions(s2, currentSessions) ==
            Total(s2, storage_getInt(s2, "totalSessions", 0) + 1)
        Count(currentSessions) ==
            Sessions(storage_set(s, sessionKey(exerciseId), NatToStr(currentSessions + 1)),
                     currentSessions)
    IN  Count(storage_getInt(s, sessionKey(exerciseId), 0))

\* exportData(), progress.js, at clock t
progress_exportData(s, t) ==
    JObj([exercises |-> exportedExercises(s),
          totalSessions |-> JNum(storage_getInt(s, "totalSessions", 0)),
          streak |-> JNum(storage_getInt(s, "streak", 0)),
          achievements |-> parseOrEmpty(storage_get(s, "achievements", <<>>)),
          exportDate |-> JStr(toISOString(t)),
          version |-> JNum(1)])

\* one turn of the forEach of importData, progress.js
progress_importExercise(s, exerciseId, exerciseData) ==
    IF exerciseData.t \in {"null", "undefined"} THEN Thrown(s)
    ELSE
    LET get(key) == IF exerciseData.t = "object" THEN Field(exerciseData, key)
                    ELSE JUndefined
        sessions == get("sessions")
        s1 == IF Truthy(sessions)
              THEN storage_set(s, sessionKey(exerciseId), JString(sessions))
              ELSE s
        best == get("best")
        easy == IF best.t = "object" THEN Field(best, "easy") ELSE JUndefined
        bestScore == IF easy.t = "number" THEN easy.v ELSE 0
    IN  IF best.t = "object" /\ bestScore > 0
        THEN Result(storage_set(s1, bestKey(exerciseId), NatToStr(bestScore)), <<>>)
        ELSE Result(s1, <<>>)

\* the forEach of importData, progress.js, from the i-th entry on
RECURSIVE progress_importExercises(_, _, _)
progress_importExercises(s, exercises, i) ==
    IF i > Len(ImportOrder) THEN Result(s, <<>>)
    ELSE IF ImportOrder[i] \notin DOMAIN exercises.v
    THEN progress_importExercises(s, exercises, i + 1)
    ELSE LET r == progress_importExercise(s, ImportOrder[i], exercises.v[ImportOrder[i]])
         IN  IF r.threw THEN r ELSE progress_importExercises(r.ls, exercises, i + 1)

\* importData(data), progress.js
progress_importData(s, data) ==
    IF ~Truthy(data) \/ TypeOf(data) # "object"
    THEN Result(s, [success |-> FALSE, error |-> "Invalid import data"])
    ELSE
    LET exercises == Field(data, "exercises")
        r == IF exercises.t = "object" THEN progress_importExercises(s, exercises, 1)
             ELSE Result(s, <<>>)
    IN  IF r.threw THEN Result(r.ls, [success |-> FALSE, error |-> TYPE_ERROR])
        ELSE Result(importGlobals(r.ls, data), [success |-> TRUE, error |-> ""])

\* resetProgress(), progress.js: removeItem of every key starting with PREFIX
progress_resetProgress(s) == Result(storage_clearAll(s), [success |-> TRUE])

(***************************************************************************)
(* The gamification ledger, src/js/gamification.js.  The instance keeps    *)
(* its fields in memory and mirrors two of them to localStorage as raw     *)
(* strings.                                                                *)
(***************************************************************************)
STORAGE_VERSION == 1
baseSessionPoints == 50
personalBestBonus == 25
streakBonus == 10
MAX_STREAK_BONUS_DAYS == 5

\* GAMIFICATION_CONFIG.levelThresholds[i].points, level i
levelThresholds == <<0, 200, 500, 1000, 1750, 2750, 4000, 5500, 7500, 10000>>

\* calculateLevel(points): the loop from the highest threshold down
RECURSIVE calculateLevelFrom(_, _)
calculateLevelFrom(points, i) ==
    IF i < 1 THEN 1
    ELSE IF points >= levelThresholds[i] THEN i
    ELSE calculateLevelFrom(points, i - 1)

calculateLevel(points) == calculateLevelFrom(points, Len(levelThresholds))

\* getLevelThreshold(level)
getLevelThreshold(level) ==
    IF level \in 1..Len(levelThresholds) THEN levelThresholds[level]
    ELSE levelThresholds[Len(levelThresholds)]

\* the two assignments of lastLevelUpPoints / nextLevelUpPoints
WithLevelBounds(g) ==
    [g EXCEPT !.lastLevelUpPoints = getLevelThreshold(g.currentLevel),
              !.nextLevelUpPoints =
                  IF g.currentLevel >= Len(levelThresholds)
                  THEN getLevelThreshold(g.currentLevel)
                  ELSE getLevelThreshold(g.currentLevel + 1)]

\* parseInt(localStorage.getItem(key) || '0', 10) of a digits-only item
parseIntItem(s, key) ==
    IF Len(s[key]) = 0 \/ Len(s[key][1]) = 0 THEN 0 ELSE StrToNat(s[key][1])

\* saveProgress()
saveProgress(s, g) ==
    [s EXCEPT ![TOTAL_POINTS_KEY] = <<NatToStr(g.totalPoints)>>,
              ![SESSIONS_COMPLETED_KEY] = <<NatToStr(g.sessionsCompleted)>>]

\* loadProgress(), localStorage available: the fields of the instance
loadProgress(s) ==
    LET points == parseIntItem(s, TOTAL_POINTS_KEY)
    IN  WithLevelBounds([totalPoints |-> points,
                         sessionsCompleted |-> parseIntItem(s, SESSIONS_COMPLETED_KEY),
                         currentLevel |-> calculateLevel(points),
                         lastLevelUpPoints |-> 0,
                         nextLevelUpPoints |-> 0])

\* GamificationSystem.resetProgress(): the fields it leaves
Gam_resetProgress ==
    [totalPoints |-> 0, currentLevel |-> 1, sessionsCompleted |-> 0,
     lastLevelUpPoints |-> 0, nextLevelUpPoints |-> getLevelThreshold(2)]

\* pointsEarned with the streak bonus growing without its cap of five days
pointsEarned_uncapped(isPersonalBest, currentStreak) ==
    baseSessionPoints
      + (IF isPersonalBest THEN personalBestBonus ELSE 0)
      + (IF currentStreak > 1 THEN (currentStreak - 1) * streakBonus ELSE 0)

\* the points one call of awardSessionPoints earns
pointsEarned(isPersonalBest, currentStreak) ==
    baseSessionPoints
      + (IF isPersonalBest THEN personalBestBonus ELSE 0)
      + (IF currentStreak > 1
         THEN (IF currentStreak - 1 < MAX_STREAK_BONUS_DAYS
               THEN currentStreak - 1 ELSE MAX_STREAK_BONUS_DAYS) * streakBonus
         ELSE 0)

\* awardSessionPoints(exerciseId, score, isPersonalBest, currentStreak)
awardSessionPoints(g, isPersonalBest, currentStreak) ==
    LET earned == pointsEarned(isPersonalBest, currentStreak)
        total == g.totalPoints + earned
        g1 == WithLevelBounds([g EXCEPT !.totalPoints = total,
                                        !.sessionsCompleted = g.sessionsCompleted + 1,
                                        !.currentLevel = calculateLevel(total)])
    IN  [gam |-> g1,
         ret |-> [pointsEarned |-> earned, totalPoints |-> total,
                  currentLevel |-> g1.currentLevel,
                  leveledUp |-> g1.currentLevel > g.currentLevel]]

\* GamificationSystem.exportData(), at clock t
Gam_exportData(g, t) ==
    JObj([version |-> JNum(STORAGE_VERSION),
          totalPoints |-> JNum(g.totalPoints),
          currentLevel |-> JNum(g.currentLevel),
          sessionsCompleted |-> JNum(g.sessionsCompleted),
          exportedAt |-> JStr(toISOString(t))])

\* x || fallback for a number field of a document
NumberOr(x, fallback) == IF Truthy(x) THEN x.v ELSE fallback

\* GamificationSystem.importData(data) of an object: the fields it leaves
\* and what it returns
Gam_importData(g, data) ==
    IF Field(data, "version") # JNum(STORAGE_VERSION) THEN [gam |-> g, ret |-> FALSE]
    ELSE
    LET points == NumberOr(Field(data, "totalPoints"), 0)
    IN  [gam |-> [g EXCEPT !.totalPoints = points,
                           !.currentLevel =
                               NumberOr(Field(data, "currentLevel"), calculateLevel(points)),
                           !.sessionsCompleted =
                               NumberOr(Field(data, "sessionsCompleted"), 0)],
         ret |-> TRUE]

\* getLevelInfo(level): the level of the table entry it returns
getLevelInfo(level) == IF level \in 1..Len(levelThresholds) THEN level ELSE 1

\* Math.round(num / den * 100) for den > 0: halves round up
RoundPercent(num, den) == (200 * num + den) \div (2 * den)

\* getProgressToNextLevel()
getProgressToNextLevel(g) ==
    IF g.currentLevel >= Len(levelThresholds) THEN 100
    ELSE LET progressPoints == g.totalPoints - g.lastLevelUpPoints
             totalNeeded == g.nextLevelUpPoints - g.lastLevelUpPoints
         IN  IF totalNeeded <= 0 THEN 100
             ELSE LET percent == RoundPercent(progressPoints, totalNeeded)
                  IN  IF percent < 0 THEN 0 ELSE IF percent > 100 THEN 100 ELSE percent

\* getCurrentStats() reporting the distance to the next level at the top level too
getCurrentStats_noMaxGuard(g) ==
    [totalPoints |-> g.totalPoints,
     currentLevel |-> g.currentLevel,
     levelInfo |-> getLevelInfo(g.currentLevel),
     sessionsCompleted |-> g.sessionsCompleted,
     progressToNextLevel |-> getProgressToNextLevel(g),
     pointsToNextLevel |-> g.nextLevelUpPoints - g.totalPoints,
     isMaxLevel |-> g.currentLevel >= Len(levelThresholds)]

\* getCurrentStats(); levelInfo stands for levelTitle and levelMessage
getCurrentStats(g) ==
    LET isMaxLevel == g.currentLevel >= Len(levelThresholds)
    IN  [totalPoints |-> g.totalPoints,
         currentLevel |-> g.currentLevel,
         levelInfo |-> getLevelInfo(g.currentLevel),
         sessionsCompleted |-> g.sessionsCompleted,
         progressToNextLevel |-> getProgressToNextLevel(g),
         pointsToNextLevel |-> IF isMaxLevel THEN 0 ELSE g.nextLevelUpPoints - g.totalPoints,
         isMaxLevel |-> isMaxLevel]

(***************************************************************************)
(* The achievement engine, src/js/achievements.js.  The file holds two     *)
(* versions of the module one after the other; the second is modelled      *)
(* under the prefix second_.  Entries and stats are records; a field they  *)
(* lack reads as undefined.                                                *)
(***************************************************************************)
\* getJSON(key, fallback)
getJSON(s, key, fallback) ==
    LET raw == storage_get(s, key, <<>>)
    IN  IF Len(raw) = 0 THEN fallback ELSE JSON_parse(raw[1])

\* getBool(key, fallback)
getBool(s, key, fallback) ==
    LET v == storage_get(s, key, <<>>)
    IN  IF v = <<STR_true>> THEN TRUE
        ELSE IF v = <<STR_false>> THEN FALSE
        ELSE fallback

\* setBool(key, val)
setBool(s, key, val) == storage_set(s, key, IF val THEN STR_true ELSE STR_false)

\* whether a sequence holds x
Includes(seq, x) == \E i \in 1..Len(seq) : seq[i] = x

\* [...new Set(arr)]: the first occurrences, in order
RECURSIVE Dedupe(_)
Dedupe(arr) ==
    IF Len(arr) = 0 THEN <<>>
    ELSE LET front == Dedupe(SubSeq(arr, 1, Len(arr) - 1))
         IN  IF Includes(front, arr[Len(arr)]) THEN front
             ELSE Append(front, arr[Len(arr)])

\* getUnlockedSet(), as the sequence of its members in insertion order
getUnlockedSet(s) ==
    LET arr == getJSON(s, "achievements", JArr(<<>>))
    IN  IF arr.t = "array" THEN Dedupe(arr.v) ELSE <<>>

\* saveUnlocked(set)
saveUnlocked(s, set) == storage_set(s, "achievements", JSON_stringify(JArr(set)))

\* x.key ?? 0, for a number field of an entry
NumField(x, key) == IF key \in DOMAIN x THEN x[key] ELSE 0

\* ACHIEVEMENTS[id].condition({ entry, stats }), first version
condition(id, entry, stats) ==
    IF id = "firstSteps" THEN "totalSessions" \in DOMAIN stats /\ stats.totalSessions >= 1
    ELSE IF id = "consistent" THEN "streak" \in DOMAIN stats /\ stats.streak >= 7
    ELSE IF id = "dedicated" THEN "totalSessions" \in DOMAIN stats /\ stats.totalSessions >= 50
    ELSE IF id = "personalBest"
    THEN "newPersonalBest" \in DOMAIN stats /\ stats.newPersonalBest = TRUE
    ELSE IF id = "explorer"
    THEN /\ "triedCount" \in DOMAIN stats /\ "totalExercises" \in DOMAIN stats
         /\ stats.triedCount >= stats.totalExercises /\ stats.totalExercises > 0
    ELSE IF id = "perfect_5" THEN NumField(entry, "perfects") >= 5
    ELSE IF id = "streak_10" THEN NumField(entry, "streak") >= 10
    ELSE /\ "difficulty" \in DOMAIN entry /\ entry.difficulty = "hard"
         /\ NumField(entry, "score") >= 1000

\* the conditions that read a field of stats
STATS_CONDITIONS == SubSeq(ACHIEVEMENT_IDS, 1, 5)

\* whether ACHIEVEMENTS[id].condition({ entry, stats }) throws: reading a
\* field of stats is a TypeError where stats is null; the entry is read with ?.
conditionThrows(id, entry, stats) == stats = JNull /\ Includes(STATS_CONDITIONS, id)

\* the number of distinct members of the tried list
triedCount(s) ==
    LET triedList == getJSON(s, "tried", JArr(<<>>))
    IN  IF triedList.t = "array" THEN Len(Dedupe(triedList.v)) ELSE 0

\* calculateStats()
calculateStats(s) ==
    [totalSessions |-> storage_getInt(s, "totalSessions", 0),
     streak |-> storage_getInt(s, "streak", 0),
     triedCount |-> triedCount(s),
     totalExercises |-> Len(RegistrySeq),
     newPersonalBest |-> getBool(s, "newPersonalBest", FALSE)]

\* the storage.set of the unlock date of each id of a list, at clock t
RECURSIVE setUnlockDates(_, _, _)
setUnlockDates(s, ids, t) ==
    IF Len(ids) = 0 THEN s
    ELSE setUnlockDates(storage_set(s, achievementDateKey(ids[1]), toISOString(t)),
                        SubSeq(ids, 2, Len(ids)), t)

\* showAchievementNotifications(unlockedIds): its write
showAchievementNotifications(s, unlockedIds) ==
    IF Includes(unlockedIds, "personalBest") THEN setBool(s, "newPersonalBest", FALSE)
    ELSE s

\* checkAndUnlockAchievements evaluating the ids already unlocked as well
checkAndUnlockAchievements_noSkip(s, entryArg, statsArg, t) ==
    LET stats == IF Len(statsArg) = 0 THEN calculateStats(s) ELSE statsArg[1]
        entry == IF Len(entryArg) = 0 THEN [k \in {} |-> 0] ELSE entryArg[1]
        unlockedSet == getUnlockedSet(s)
        Unlocks(id) == ~conditionThrows(id, entry, stats) /\ condition(id, entry, stats)
        newly == SelectSeq(ACHIEVEMENT_IDS, Unlocks)
        s1 == setUnlockDates(s, newly, t)
    IN  IF Len(newly) > 0
        THEN Result(showAchievementNotifications(saveUnlocked(s1, unlockedSet \o newly),
                                                 newly), newly)
        ELSE Result(s1, newly)

\* checkAndUnlockAchievements without the try around the condition: the first
\* condition that throws ends the call
checkAndUnlockAchievements_uncaught(s, entryArg, statsArg, t) ==
    LET stats == IF Len(statsArg) = 0 THEN calculateStats(s) ELSE statsArg[1]
        entry == IF Len(entryArg) = 0 THEN [k \in {} |-> 0] ELSE entryArg[1]
        unlockedSet == getUnlockedSet(s)
        Throws(id) == ~Includes(unlockedSet, id) /\ conditionThrows(id, entry, stats)
        Unlocks(id) == ~Includes(unlockedSet, id) /\ condition(id, entry, stats)
        newly == SelectSeq(ACHIEVEMENT_IDS, Unlocks)
        s1 == setUnlockDates(s, newly, t)
    IN  IF Len(SelectSeq(ACHIEVEMENT_IDS, Throws)) > 0 THEN Thrown(s)
        ELSE IF Len(newly) > 0
        THEN Result(showAchievementNotifications(saveUnlocked(s1, unlockedSet \o newly),
                                                 newly), newly)
        ELSE Result(s1, newly)

\* checkAndUnlockAchievements(entry, stats), first version, at clock t; an
\* argument left out is <<>>, one given is <<value>>
checkAndUnlockAchievements(s, entryArg, statsArg, t) ==
    LET stats == IF Len(statsArg) = 0 THEN calculateStats(s) ELSE statsArg[1]
        entry == IF Len(entryArg) = 0 THEN [k \in {} |-> 0] ELSE entryArg[1]
        unlockedSet == getUnlockedSet(s)
        Unlocks(id) == /\ ~Includes(unlockedSet, id)
                       /\ ~conditionThrows(id, entry, stats)
                       /\ condition(id, entry, stats)
        newly == SelectSeq(ACHIEVEMENT_IDS, Unlocks)
        s1 == setUnlockDates(s, newly, t)
    IN  IF Len(newly) > 0
        THEN Result(showAchievementNotifications(saveUnlocked(s1, unlockedSet \o newly),
                                                 newly), newly)
        ELSE Result(s1, newly)

\* markExerciseTried(exerciseId)
markExerciseTried(s, exerciseId) ==
    LET triedRaw == getJSON(s, "tried", JArr(<<>>))
        tried == IF triedRaw.t = "array" THEN Dedupe(triedRaw.v) ELSE <<>>
    IN  IF Includes(tried, exerciseId) THEN s
        ELSE storage_set(s, "tried", JSON_stringify(JArr(Append(tried, exerciseId))))

\* the sum of the registry exercises' session counters, from the i-th on
RECURSIVE sumSessions(_, _)
sumSessions(s, i) ==
    IF i > Len(RegistrySeq) THEN 0
    ELSE storage_getInt(s, sessionKey(RegistrySeq[i]), 0) + sumSessions(s, i + 1)

\* checkAndUnlockAchievements(), second version, at clock t
second_checkAndUnlockAchievements(s, t) ==
    LET unlocked == getUnlockedSet(s)
        totalSessions == sumSessions(s, 1)
        streak == storage_getInt(s, "streak", 0)
        personalBestFlag == getBool(s, "newPersonalBest", FALSE)
        Unlocks(id) ==
            /\ ~Includes(unlocked, id)
            /\ IF id = "firstSteps" THEN totalSessions >= 1
               ELSE IF id = "consistent" THEN streak >= 7
               ELSE IF id = "dedicated" THEN totalSessions >= 50
               ELSE IF id = "personalBest" THEN personalBestFlag
               ELSE IF id = "explorer" THEN triedCount(s) >= Len(RegistrySeq)
               ELSE FALSE
        newly == SelectSeq(SubSeq(ACHIEVEMENT_IDS, 1, 5), Unlocks)
        s1 == IF Includes(newly, "personalBest") THEN setBool(s, "newPersonalBest", FALSE)
              ELSE s
    IN  IF Len(newly) > 0
        THEN Result(setUnlockDates(saveUnlocked(s1, unlocked \o newly), newly, t), newly)
        ELSE Result(s1, newly)

(***************************************************************************)
(* The adaptive-difficulty unlock engine, src/js/exercises.js.  The rule   *)
(* table UNLOCK_RULES and its reader getUnlockRule are imported by the     *)
(* engine but are in none of the repository's files; they are modelled     *)
(* from the specification: exerciseId -> difficulty -> {base, minSessions, *)
(* minScore}, no rule for the first difficulty.                            *)
(***************************************************************************)
UNLOCK_RULES ==
    [e \in Registry |->
        [medium |-> [base |-> "easy", minSessions |-> 5, minScore |-> 100],
         hard |-> [base |-> "medium", minSessions |-> 2, minScore |-> 100]]]

\* Object.keys(UNLOCK_RULES[exerciseId]), in order
RULED_DIFFICULTIES == <<"medium", "hard">>

\* getUnlockRule(exerciseId, difficulty): <<rule>>, or <<>> when there is none
getUnlockRule(exerciseId, difficulty) ==
    IF exerciseId \in DOMAIN UNLOCK_RULES /\ difficulty \in DOMAIN UNLOCK_RULES[exerciseId]
    THEN <<UNLOCK_RULES[exerciseId][difficulty]>>
    ELSE <<>>

PERF_SCORES_LIMIT == 20

\* isUnlocked(exerciseId, difficulty)
isUnlocked(s, exerciseId, difficulty) ==
    IF Len(getUnlockRule(exerciseId, difficulty)) = 0 THEN TRUE
    ELSE storage_get(s, unlockKey(exerciseId, difficulty), <<>>) = <<TRUE>>

\* getPerformanceData(exerciseId, difficulty); averageScore is kept in tenths
getPerformanceData(s, exerciseId, difficulty) ==
    LET stored == storage_get(s, perfKey(exerciseId, difficulty), <<>>)
    IN  IF Len(stored) = 0
        THEN [sessions |-> 0, bestScore |-> 0, averageScore |-> 0, scores |-> <<>>]
        ELSE stored[1]

RECURSIVE SumSeq(_)
SumSeq(q) == IF Len(q) = 0 THEN 0 ELSE q[1] + SumSeq(SubSeq(q, 2, Len(q)))

\* checkUnlock asking for more sessions than the rule's minimum
checkUnlock_strictSessions(acc, exerciseId, difficulty) ==
    IF isUnlocked(acc.ls, exerciseId, difficulty) THEN acc
    ELSE
    LET rule == UNLOCK_RULES[exerciseId][difficulty]
        basePerf == getPerformanceData(acc.ls, exerciseId, rule.base)
        meetsSessionReq == basePerf.sessions > rule.minSessions
        meetsScoreReq == basePerf.bestScore >= rule.minScore
    IN  IF meetsSessionReq /\ meetsScoreReq
        THEN [ls |-> storage_set(acc.ls, unlockKey(exerciseId, difficulty), TRUE),
              ret |-> Append(acc.ret, [exerciseId |-> exerciseId,
                                       difficulty |-> difficulty]),
              threw |-> FALSE]
        ELSE acc

\* checkUnlock looking at the tiers already unlocked as well
checkUnlock_noSkip(acc, exerciseId, difficulty) ==
    LET rule == UNLOCK_RULES[exerciseId][difficulty]
        basePerf == getPerformanceData(acc.ls, exerciseId, rule.base)
        meetsSessionReq == basePerf.sessions >= rule.minSessions
        meetsScoreReq == basePerf.bestScore >= rule.minScore
    IN  IF meetsSessionReq /\ meetsScoreReq
        THEN [ls |-> storage_set(acc.ls, unlockKey(exerciseId, difficulty), TRUE),
              ret |-> Append(acc.ret, [exerciseId |-> exerciseId,
                                       difficulty |-> difficulty]),
              threw |-> FALSE]
        ELSE acc

\* one turn of the inner forEach of checkAllUnlocks: the store and the list
\* of new unlocks after looking at one (exercise, difficulty) of the rules
checkUnlock(acc, exerciseId, difficulty) ==
    IF isUnlocked(acc.ls, exerciseId, difficulty) THEN acc
    ELSE
    LET rule == UNLOCK_RULES[exerciseId][difficulty]
        basePerf == getPerformanceData(acc.ls, exerciseId, rule.base)
        meetsSessionReq == basePerf.sessions >= rule.minSessions
        meetsScoreReq == basePerf.bestScore >= rule.minScore
    IN  IF meetsSessionReq /\ meetsScoreReq
        THEN [ls |-> storage_set(acc.ls, unlockKey(exerciseId, difficulty), TRUE),
              ret |-> Append(acc.ret, [exerciseId |-> exerciseId,
                                       difficulty |-> difficulty]),
              threw |-> FALSE]
        ELSE acc

\* the two forEach loops of checkAllUnlocks from the i-th exercise and the
\* j-th ruled difficulty on
RECURSIVE checkUnlocksFrom(_, _, _)
checkUnlocksFrom(acc, i, j) ==
    IF i > Len(RegistrySeq) THEN acc
    ELSE IF j > Len(RULED_DIFFICULTIES) THEN checkUnlocksFrom(acc, i + 1, 1)
    ELSE checkUnlocksFrom(checkUnlock(acc, RegistrySeq[i], RULED_DIFFICULTIES[j]), i, j + 1)

\* checkAllUnlocks()
checkAllUnlocks(s) == checkUnlocksFrom(Result(s, <<>>), 1, 1)

\* the performance write that opens adaptiveDifficulty.recordSession
recordPerformance(s, exerciseId, difficulty, score) ==
    LET perfData == getPerformanceData(s, exerciseId, difficulty)
        pushed == Append(perfData.scores, score)
        scores == IF Len(pushed) > PERF_SCORES_LIMIT
                  THEN SubSeq(pushed, Len(pushed) - PERF_SCORES_LIMIT + 1, Len(pushed))
                  ELSE pushed
        updated == [sessions |-> perfData.sessions + 1,
                    bestScore |-> IF score > perfData.bestScore THEN score
                                  ELSE perfData.bestScore,
                    averageScore |-> RoundDiv(10 * SumSeq(scores), Len(scores)),
                    scores |-> scores]
    IN  storage_set(s, perfKey(exerciseId, difficulty), updated)

\* adaptiveDifficulty.recordSession(exerciseId, difficulty, score)
adaptiveDifficulty_recordSession(s, exerciseId, difficulty, score) ==
    checkAllUnlocks(recordPerformance(s, exerciseId, difficulty, score))

\* seedBaseUnlocks seeding the first tier only where a rule gates it
seedBaseUnlocks_ruledOnly(s, exerciseId) ==
    IF exerciseId \notin Registry THEN s
    ELSE IF Len(getUnlockRule(exerciseId, DIFFICULTIES[1])) = 0 THEN s
    ELSE storage_set(s, unlockKey(exerciseId, DIFFICULTIES[1]), TRUE)

\* seedBaseUnlocks(exerciseId)
seedBaseUnlocks(s, exerciseId) ==
    IF exerciseId \notin Registry THEN s
    ELSE IF storage_get(s, unlockKey(exerciseId, DIFFICULTIES[1]), <<>>) = <<TRUE>> THEN s
    ELSE storage_set(s, unlockKey(exerciseId, DIFFICULTIES[1]), TRUE)

\* initializeForExercise(exerciseId): its writes
initializeForExercise(s, exerciseId) == checkAllUnlocks(seedBaseUnlocks(s, exerciseId))

\* getExercise(exerciseId): <<exercise>>, or <<>> for null
getExercise(exerciseId) ==
    IF exerciseId \in Registry
    THEN <<[id |-> exerciseId, difficulties |-> DIFFICULTIES]>>
    ELSE <<>>

\* arr.indexOf(x), counted from 0; -1 where x is not in arr
indexOf(arr, x) ==
    IF Includes(arr, x) THEN (CHOOSE i \in 1..Len(arr) :
                                 arr[i] = x /\ \A j \in 1..(i - 1) : arr[j] # x) - 1
    ELSE -1

MIN_SESSIONS_FOR_PROGRESSION == 2

\* checkTherapeuticSafety asking for practice on the second tier as well
checkTherapeuticSafety_firstTierOnly(s, exerciseId, requestedDifficulty) ==
    LET Practised(exercise, currentIndex) ==
            getPerformanceData(s, exerciseId, exercise.difficulties[currentIndex]).sessions
               >= MIN_SESSIONS_FOR_PROGRESSION
        Indexed(exercise, currentIndex) ==
            IF currentIndex = -1 THEN FALSE
            ELSE IF currentIndex <= 0 THEN TRUE
            ELSE Practised(exercise, currentIndex)
        Found(exercise) ==
            IF ~Includes(exercise.difficulties, requestedDifficulty) THEN TRUE
            ELSE Indexed(exercise, indexOf(exercise.difficulties, requestedDifficulty))
    IN  IF Len(getExercise(exerciseId)) = 0 THEN FALSE
        ELSE Found(getExercise(exerciseId)[1])

\* checkTherapeuticSafety(exerciseId, requestedDifficulty).  Practised reads
\* the tier before the requested one: difficulties[currentIndex - 1] counted
\* from 0 is the currentIndex-th element counted from 1.
checkTherapeuticSafety(s, exerciseId, requestedDifficulty) ==
    LET Practised(exercise, currentIndex) ==
            getPerformanceData(s, exerciseId, exercise.difficulties[currentIndex]).sessions
               >= MIN_SESSIONS_FOR_PROGRESSION
        Indexed(exercise, currentIndex) ==
            IF currentIndex = -1 THEN FALSE
            ELSE IF currentIndex <= 1 THEN TRUE
            ELSE Practised(exercise, currentIndex)
        Found(exercise) ==
            IF ~Includes(exercise.difficulties, requestedDifficulty) THEN TRUE
            ELSE Indexed(exercise, indexOf(exercise.difficulties, requestedDifficulty))
    IN  IF Len(getExercise(exerciseId)) = 0 THEN FALSE
        ELSE Found(getExercise(exerciseId)[1])

\* the digits of a string value as one string
RECURSIVE JoinChars(_)
JoinChars(chars) ==
    IF Len(chars) = 0 THEN "" ELSE chars[1] \o JoinChars(SubSeq(chars, 2, Len(chars)))

\* DIFFICULTY_LABELS[difficulty] || difficulty, for a table of labels
labelOr(labels, difficulty) ==
    IF difficulty \in DOMAIN labels /\ labels[difficulty] # ""
    THEN labels[difficulty] ELSE difficulty

\* getTherapeuticSafetyMessage(exerciseId, requestedDifficulty), with the
\* imported table DIFFICULTY_LABELS: <<message>>, or <<>> for null
getTherapeuticSafetyMessage(s, labels, exerciseId, requestedDifficulty) ==
    LET Message(previousDifficulty, prevPerf) ==
            IF prevPerf.sessions < MIN_SESSIONS_FOR_PROGRESSION
            THEN <<"(!) Try " \o labelOr(labels, previousDifficulty) \o " a bit more ("
                     \o JoinChars(NatToStr(prevPerf.sessions)) \o "/"
                     \o JoinChars(NatToStr(MIN_SESSIONS_FOR_PROGRESSION))
                     \o " sessions) before moving up.">>
            ELSE <<>>
        Indexed(exercise, currentIndex) ==
            IF currentIndex <= 1 THEN <<>>
            ELSE Message(exercise.difficulties[currentIndex],
                         getPerformanceData(s, exerciseId, exercise.difficulties[currentIndex]))
        Found(exercise) ==
            IF ~Includes(exercise.difficulties, requestedDifficulty) THEN <<>>
            ELSE Indexed(exercise, indexOf(exercise.difficulties, requestedDifficulty))
    IN  IF Len(getExercise(exerciseId)) = 0 THEN <<>>
        ELSE Found(getExercise(exerciseId)[1])

(***************************************************************************)
(* Inputs.                                                                 *)
(***************************************************************************)
\* Tuesday 2024-02-27: the window holds a leap day, a month end and a weekend
FirstDay == DaysFromCivil(2024, 2, 27)

Days == FirstDay .. (FirstDay + MaxDay)

YMDOfDay(n) == toYMD([k |-> "Date", t |-> n * HOURS_PER_DAY])

NOT_A_DATE == <<"s", "o", "o", "n">>

\* what callers pass to updateStreak: day strings, Date objects late in the
\* day, and a string that is no date
DateInputs ==
    {[k |-> "string", s |-> YMDOfDay(n)] : n \in Days}
    \cup {[k |-> "Date", t |-> n * HOURS_PER_DAY + 23] : n \in Days}
    \cup {[k |-> "string", s |-> NOT_A_DATE]}

NoCall == [op |-> "none", arg |-> <<>>, pre |-> EmptyStorage, ret |-> <<>>, threw |-> FALSE]

Called(op, arg, pre, r) ==
    [op |-> op, arg |-> arg, pre |-> pre, ret |-> r.ret, threw |-> r.threw]

(***************************************************************************)
(* The session timer, src/unnamed/part_001 (js/session-core.js).  The      *)
(* closure variables of createSession are the fields of a record; out      *)
(* holds the callbacks the last call invoked, in order.                    *)
(***************************************************************************)
TICK_MS == 100
MAX_DURATION_MS == 3600000

\* a callback invoked with a value
Cb(name, v) == [cb |-> name, v |-> v]

\* clampMs(ms) of a number
clampMs(ms) ==
    IF ms < 0 THEN 0 ELSE IF ms > MAX_DURATION_MS THEN MAX_DURATION_MS ELSE ms

\* createSession({durationMs, onTick, onEnd, onPauseChange, autoPauseOnHide})
createSession(durationMs, autoPauseOnHide) ==
    [remainingMs |-> clampMs(durationMs), timerId |-> FALSE, paused |-> FALSE,
     ended |-> FALSE, visHandler |-> autoPauseOnHide, out |-> <<>>]

\* stop()
stop(ss) == [ss EXCEPT !.timerId = FALSE]

\* tick() taking half a step off the time that remains
tick_halfStep(ss) ==
    IF ss.paused \/ ss.ended THEN ss
    ELSE IF ss.remainingMs - TICK_MS \div 2 <= 0
    THEN [stop(ss) EXCEPT !.remainingMs = 0, !.ended = TRUE,
                          !.out = <<Cb("onTick", 0), Cb("onEnd", 0)>>]
    ELSE [ss EXCEPT !.remainingMs = ss.remainingMs - TICK_MS \div 2,
                    !.out = <<Cb("onTick", ss.remainingMs - TICK_MS \div 2)>>]

\* tick(), the callback of the interval
tick(ss) ==
    IF ss.paused \/ ss.ended THEN ss
    ELSE IF ss.remainingMs - TICK_MS <= 0
    THEN [stop(ss) EXCEPT !.remainingMs = 0, !.ended = TRUE,
                          !.out = <<Cb("onTick", 0), Cb("onEnd", 0)>>]
    ELSE [ss EXCEPT !.remainingMs = ss.remainingMs - TICK_MS,
                    !.out = <<Cb("onTick", ss.remainingMs - TICK_MS)>>]

\* start()
start(ss) ==
    [stop(ss) EXCEPT !.ended = FALSE, !.paused = FALSE, !.timerId = TRUE,
                     !.out = <<Cb("onTick", ss.remainingMs)>>]

\* pause()
pause(ss) ==
    IF ~ss.paused THEN [ss EXCEPT !.paused = TRUE, !.out = <<Cb("onPauseChange", 1)>>]
    ELSE ss

\* resume()
resume(ss) ==
    IF ~ss.ended /\ ss.paused
    THEN [ss EXCEPT !.paused = FALSE, !.out = <<Cb("onPauseChange", 0)>>]
    ELSE ss

\* end() calling onEnd again on a session that has ended
end_unguarded(ss) == [stop(ss) EXCEPT !.ended = TRUE, !.out = <<Cb("onEnd", 0)>>]

\* end()
end(ss) ==
    IF ss.ended THEN ss
    ELSE [stop(ss) EXCEPT !.ended = TRUE, !.out = <<Cb("onEnd", 0)>>]

\* setDuration(ms)
setDuration(ss, ms) ==
    [ss EXCEPT !.remainingMs = clampMs(ms), !.out = <<Cb("onTick", clampMs(ms))>>]

\* timeRemaining(), isPaused(), isEnded()
timeRemaining(ss) == IF ss.remainingMs < 0 THEN 0 ELSE ss.remainingMs
isPaused(ss) == ss.paused
isEnded(ss) == ss.ended

\* visHandler, the listener of visibilitychange, with document.hidden
visibilityChange(ss, hidden) == IF ss.visHandler /\ hidden THEN pause(ss) ELSE ss

\* destroy()
destroy(ss) == [stop(ss) EXCEPT !.visHandler = FALSE]

(***************************************************************************)
(* The page loads one of the two progress modules; its calls go there.     *)
(***************************************************************************)
Ledger_updateStreak(s, dl) ==
    IF impl.ledger = "part_003" THEN updateStreak(s, dl) ELSE progress_updateStreak(s, dl)

Ledger_recordSession(s, exerciseId, difficulty, score, extras, t) ==
    IF impl.ledger = "part_003" THEN recordSession(s, exerciseId, difficulty, score, extras, t)
    ELSE progress_recordSession(s, exerciseId, difficulty, score, t)

Ledger_exportData(s, t) ==
    IF impl.ledger = "part_003" THEN exportData(s, t) ELSE progress_exportData(s, t)

Ledger_importData(s, data) ==
    IF impl.ledger = "part_003" THEN importData(s, data) ELSE progress_importData(s, data)

Ledger_resetProgress(s) ==
    IF impl.ledger = "part_003" THEN resetProgress(s) ELSE progress_resetProgress(s)

(***************************************************************************)
(* Behaviours of the streak engine: updateStreak with any date of the      *)
(* window, importData of a streak value, resetProgress.                    *)
(***************************************************************************)
\* a session as createSession returned it, with what has been observed of it:
\* ends counts the onEnd calls since the last start() (or since creation),
\* r0 is the time that remained at the last start(), ticks counts the
\* interval ticks since then while nothing else was called (undisturbed)
Created(ss) ==
    [ss |-> ss, op |-> "createSession", ends |-> 0, started |-> FALSE,
     r0 |-> 0, ticks |-> 0, undisturbed |-> FALSE]

\* a page without a timed exercise
NoSession == Created(createSession(0, FALSE))

\* new SessionEnhancementSystem() over a store holding a session counter:
\* sessions and best are the stored counter and personal best of the
\* current exercise, loops the delays the drain loops are waiting for,
\* toasts the time since each toast was last shown, pushed and shown the
\* notifications queued and shown so far
NewEnhancement(sessions) ==
    [notificationQueue |-> <<>>, isProcessingQueue |-> FALSE,
     achievedMilestones |-> <<>>, sessions |-> sessions, best |-> 0,
     loops |-> <<>>, toasts |-> {}, pushed |-> <<>>, shown |-> <<>>]

InitStore ==
    /\ ls = EmptyStorage
    /\ impl \in [ledger : {"part_003", "progress"}, achievements : {"first", "second"}]
    /\ now = FirstDay * HOURS_PER_DAY + 9
    /\ call = NoCall
    /\ gam = loadProgress(EmptyStorage)
    /\ log = <<>>
    /\ awarded = <<>>
    /\ transfers = 0
    /\ unlocks = <<>>

Init ==
    /\ InitStore
    /\ timer = NoSession
    /\ enh = NewEnhancement(0)

\* the page loads the first version of the achievements module
InitLedger == Init /\ impl.achievements = "first"

\* the page loads part_003 and the first version of the achievements module
InitPage == InitLedger /\ impl.ledger = "part_003"

UpdateStreak(dl) ==
    /\ storage_getInt(ls, "streak", 0) < MaxStreak
    /\ LET Returned(r) ==
               /\ ls' = r.ls
               /\ call' = Called("updateStreak", dl, ls, r)
       IN  Returned(Ledger_updateStreak(ls, dl))
    /\ UNCHANGED <<impl, now, gam, log, awarded, transfers, unlocks, timer, enh>>

ImportStreak(n) ==
    /\ LET Returned(data, r) ==
               /\ ls' = r.ls
               /\ call' = Called("importData", data, ls, r)
           Import(data) == Returned(data, Ledger_importData(ls, data))
       IN  Import(JObj([streak |-> JNum(n)]))
    /\ UNCHANGED <<impl, now, gam, log, awarded, transfers, unlocks, timer, enh>>

ResetProgressCall ==
    LET Returned(r) ==
            /\ ls' = r.ls
            /\ call' = Called("resetProgress", <<>>, ls, r)
    IN  Returned(Ledger_resetProgress(ls))

ResetProgress ==
    /\ ResetProgressCall
    /\ UNCHANGED <<impl, now, gam, log, awarded, transfers, unlocks, timer, enh>>

NextStreak ==
    \/ \E dl \in DateInputs : UpdateStreak(dl)
    \/ \E n \in 0..(MaxStreak - 1) : ImportStreak(n)
    \/ ResetProgress

SpecStreak == InitLedger /\ [][NextStreak]_vars

(***************************************************************************)
(* Properties of the streak engine.                                        *)
(***************************************************************************)
\* the stored last active day of a store, when it holds a calendar day
HasLastDay(s) ==
    /\ Len(s[PREFIX \o "lastActiveDate"]) = 1
    /\ IsYMD(s[PREFIX \o "lastActiveDate"][1])

LastDay(s) == DayNumberOfYMD(s[PREFIX \o "lastActiveDate"][1])

\* the last call was updateStreak(D) on a store with a last active day L
StreakCall ==
    /\ call.op = "updateStreak"
    /\ DateLikeValid(call.arg)
    /\ HasLastDay(call.pre)

\* C1: out-of-order protection.  updateStreak(D) with D strictly earlier
\* than the stored last active day L leaves the stored streak and the stored
\* lastActiveDate exactly as they were, in both implementations.
C1_OutOfOrderProtection ==
    (StreakCall /\ DateLikeDay(call.arg) < LastDay(call.pre))
        => /\ ls[PREFIX \o "streak"] = call.pre[PREFIX \o "streak"]
           /\ ls[PREFIX \o "lastActiveDate"] = call.pre[PREFIX \o "lastActiveDate"]

\* the gap g = dayDiff(L, D) of the last call
CallGap == dayDiff(call.pre[PREFIX \o "lastActiveDate"][1], toYMD(call.arg))

\* D is a Monday and L the Friday, Saturday or Sunday before it
AmnestyApplies ==
    /\ UTCDay(DateLikeDay(call.arg)) = 1
    /\ UTCDay(LastDay(call.pre)) \in {5, 6, 0}
    /\ DateLikeDay(call.arg) - LastDay(call.pre) \in 1..3

\* C2: streak reset boundary.  With stored streak s and gap g = dayDiff(L, D):
\* g >= 4 makes the streak 1 whatever the weekdays; g of 2 or 3 makes it 1
\* unless D is a Monday and L the Friday, Saturday or Sunday before, and then
\* it becomes s + 1.
C2_StreakResetBoundary ==
    StreakCall =>
        LET s == storage_getInt(call.pre, "streak", 0)
            after == storage_getInt(ls, "streak", 0)
        IN  /\ CallGap >= 4 => (after = 1 /\ call.ret = 1)
            /\ CallGap \in {2, 3} =>
                   IF AmnestyApplies THEN after = s + 1 /\ call.ret = s + 1
                   ELSE after = 1 /\ call.ret = 1

\* a Friday with streak 3, then the following Monday: the streak is 4
C2_Witness ==
    /\ StreakCall
    /\ UTCDay(LastDay(call.pre)) = 5
    /\ UTCDay(DateLikeDay(call.arg)) = 1
    /\ CallGap = 3
    /\ storage_getInt(call.pre, "streak", 0) = 3
    /\ storage_getInt(ls, "streak", 0) = 4

\* !storage.get('lastActiveDate'): no last active day is stored
LastActiveAbsent(s) == storage_get(s, "lastActiveDate", <<>>) \in {<<>>, <<STR_empty>>}

\* C11: engagement-state invariant.  In every state reached through
\* updateStreak, importData and resetProgress, lastActiveDate is absent
\* exactly when the streak is 0 or not stored; whenever it is set, the streak
\* is at least 1.
C11_EngagementInvariant ==
    LastActiveAbsent(ls) <=> storage_getInt(ls, "streak", 0) = 0

\* two valid date-likes of the same UTC calendar day
SameDay(d1, d2) == DateLikeValid(d1) /\ DateLikeValid(d2) /\ DateLikeDay(d1) = DateLikeDay(d2)

\* C12: same-day idempotence.  Of two successive calls updateStreak(D) with
\* a valid day D, the second returns the streak the first returned and
\* changes neither the stored streak nor the stored lastActiveDate, in both
\* implementations.
C12_SameDayIdempotence ==
    [][(/\ call.op = "updateStreak" /\ ~call.threw
        /\ call'.op = "updateStreak"
        /\ SameDay(call.arg, call'.arg))
           => /\ ~call'.threw
              /\ call'.ret = call.ret
              /\ ls'[PREFIX \o "streak"] = ls[PREFIX \o "streak"]
              /\ ls'[PREFIX \o "lastActiveDate"] = ls[PREFIX \o "lastActiveDate"]]_vars

\* a call updateStreak(D) on a store whose last active day is D already and
\* whose streak is 2: it returns 2 and the store is as it was
C12_Witness ==
    /\ StreakCall
    /\ LastDay(call.pre) = DateLikeDay(call.arg)
    /\ storage_getInt(call.pre, "streak", 0) = 2
    /\ call.ret = 2
    /\ ls = call.pre

\* C13: initial and consecutive-day transitions.  updateStreak(D) with no
\* last active day stored sets the streak to 1 and lastActiveDate to D; with
\* dayDiff(lastActiveDate, D) = 1 it sets the streak to the previous streak
\* plus 1 and lastActiveDate to D.
C13_InitialAndConsecutive ==
    (call.op = "updateStreak" /\ DateLikeValid(call.arg)) =>
        /\ LastActiveAbsent(call.pre) =>
               /\ call.ret = 1
               /\ storage_getInt(ls, "streak", 0) = 1
               /\ ls[PREFIX \o "lastActiveDate"] = <<toYMD(call.arg)>>
        /\ (HasLastDay(call.pre) /\ CallGap = 1) =>
               /\ call.ret = storage_getInt(call.pre, "streak", 0) + 1
               /\ storage_getInt(ls, "streak", 0) = storage_getInt(call.pre, "streak", 0) + 1
               /\ ls[PREFIX \o "lastActiveDate"] = <<toYMD(call.arg)>>

\* the day after a last active day with streak 2: the streak is 3
C13_Witness ==
    /\ StreakCall
    /\ CallGap = 1
    /\ storage_getInt(call.pre, "streak", 0) = 2
    /\ storage_getInt(ls, "streak", 0) = 3
    /\ LastDay(ls) = LastDay(call.pre) + 1

\* C32: invalid dates fail loudly.  updateStreak called with an input that
\* cannot be normalised to a calendar day ends by throwing, in both ledgers,
\* and leaves streak, lastActiveDate and every other item as they were.
C32_InvalidDateFailsLoudly ==
    (call.op = "updateStreak" /\ ~DateLikeValid(call.arg))
        => (call.threw /\ ls = call.pre)

\* a text that is no date was passed over a streak of two days, which stands
C32_Witness ==
    /\ call.op = "updateStreak"
    /\ call.arg = [k |-> "string", s |-> NOT_A_DATE]
    /\ call.threw
    /\ storage_getInt(call.pre, "streak", 0) = 2
    /\ storage_getInt(ls, "streak", 0) = 2
    /\ ls[PREFIX \o "lastActiveDate"] = call.pre[PREFIX \o "lastActiveDate"]

\* the day given to updateStreak is not before the stored last active day
InOrder(s, dl) ==
    (DateLikeValid(dl) /\ HasLastDay(s)) => LastDay(s) <= DateLikeDay(dl)

\* C37: on in-order input the updateStreak of part_003 and the updateStreak
\* of progress.js, applied to the same store, return the same value and leave
\* the same store, and that is what the call made has done
C37_StreakImplementationsAgree ==
    (call.op = "updateStreak" /\ InOrder(call.pre, call.arg)) =>
        /\ updateStreak(call.pre, call.arg) = progress_updateStreak(call.pre, call.arg)
        /\ ls = updateStreak(call.pre, call.arg).ls
        /\ call.threw = updateStreak(call.pre, call.arg).threw
        /\ ~call.threw => call.ret = updateStreak(call.pre, call.arg).ret

\* an in-order update two days on: the Monday after a Saturday extends a
\* streak of two to three
C37_Witness ==
    /\ StreakCall
    /\ CallGap = 2
    /\ AmnestyApplies
    /\ call.ret = 3
    /\ storage_getInt(ls, "streak", 0) = 3

\* on out-of-order input the two differ: progress.js moves the last active day
ImplementationsDifferOutOfOrder ==
    /\ StreakCall
    /\ ~InOrder(call.pre, call.arg)
    /\ updateStreak(call.pre, call.arg) # progress_updateStreak(call.pre, call.arg)

(***************************************************************************)
(* Behaviours of the session ledger alone: recordSession calls from empty  *)
(* storage, for a registered and an unregistered exercise.                 *)
(***************************************************************************)
NoExtras == [k \in {} |-> 0]

\* the exercises and difficulties the recording behaviours draw from
RecordedExercises == {RegistrySeq[1], UNREGISTERED_ID}
RecordedDifficulties == {"easy", "hard"}

Logged(exerciseId, difficulty, score, r) ==
    [id |-> exerciseId, difficulty |-> difficulty, score |-> score,
     isNewBest |-> r.ret.isNewBest, totalSessions |-> r.ret.totalSessions]

RecordSession(exerciseId, difficulty, score, extras) ==
    /\ Len(log) < MaxSessions
    /\ LET Returned(r) ==
               /\ ~r.threw
               /\ ls' = r.ls
               /\ call' = Called("recordSession",
                                 [id |-> exerciseId, difficulty |-> difficulty,
                                  score |-> score, extras |-> extras], ls, r)
               /\ log' = Append(log, Logged(exerciseId, difficulty, score, r))
       IN  Returned(Ledger_recordSession(ls, exerciseId, difficulty, score, extras, now))
    /\ UNCHANGED <<impl, now, gam, awarded, transfers, unlocks, timer, enh>>

NextRecord ==
    \E e \in RecordedExercises, d \in RecordedDifficulties, sc \in 0..MaxScore :
        RecordSession(e, d, sc, NoExtras)

SpecRecord == InitLedger /\ [][NextRecord]_vars

(***************************************************************************)
(* Properties of the session ledger.                                       *)
(***************************************************************************)
\* the positions of the log that record the exercise
CallsFor(l, exerciseId) == {i \in 1..Len(l) : l[i].id = exerciseId}

\* the positions of the log that record the exercise at the difficulty
CallsForPair(l, exerciseId, difficulty) ==
    {i \in CallsFor(l, exerciseId) : l[i].difficulty = difficulty}

\* the greatest member of a non-empty set of numbers
MaxOf(S) == CHOOSE n \in S : \A m \in S : m <= n

\* C5: monotonic counters.  From empty storage and under recordSession calls
\* alone, totalSessions equals the number of calls made and each exercise's
\* session counter the number of calls made for it, and neither ever decreases.
C5_MonotonicCounters ==
    /\ [](/\ storage_getInt(ls, "totalSessions", 0) = Len(log)
          /\ \A e \in ExerciseArgs :
                 storage_getInt(ls, sessionKey(e), 0) = Cardinality(CallsFor(log, e)))
    /\ [][/\ storage_getInt(ls', "totalSessions", 0) >= storage_getInt(ls, "totalSessions", 0)
          /\ \A e \in ExerciseArgs :
                 storage_getInt(ls', sessionKey(e), 0) >= storage_getInt(ls, sessionKey(e), 0)]_vars

\* three calls made, two of them for one exercise and one for another
C5_Witness ==
    /\ Len(log) = 3
    /\ storage_getInt(ls, "totalSessions", 0) = 3
    /\ storage_getInt(ls, sessionKey(RegistrySeq[1]), 0) = 2
    /\ storage_getInt(ls, sessionKey(UNREGISTERED_ID), 0) = 1

\* the scores the log holds at a set of positions
ScoresAt(l, I) == {l[i].score : i \in I}

MaxIdleDays == 3

\* the score of the first session the specification walks through
FIRST_SESSION_SCORE == 120

DayPasses ==
    /\ now < (FirstDay + MaxIdleDays) * HOURS_PER_DAY
    /\ now' = now + HOURS_PER_DAY
    /\ call' = [op |-> "clock", arg |-> <<>>, pre |-> ls, ret |-> <<>>, threw |-> FALSE]
    /\ UNCHANGED <<ls, impl, gam, log, awarded, transfers, unlocks, timer, enh>>

NextDaily ==
    \/ \E sc \in {MaxScore, FIRST_SESSION_SCORE} :
           RecordSession(RegistrySeq[1], "easy", sc, NoExtras)
    \/ DayPasses

SpecDaily == InitLedger /\ [][NextDaily]_vars

\* the streak and last active day a store holds
Engagement(s) == <<s[PREFIX \o "streak"], s[PREFIX \o "lastActiveDate"]>>

\* C14: every recorded session touches the engagement state with the
\* recording moment as today.  After recordSession, streak and lastActiveDate
\* are what updateStreak(current UTC day) yields from the prior state; from
\* empty storage recordSession('bubble', 'easy', 120) returns isNewBest = true
\* and totalSessions = 1, the best of 'bubble' is 120 and the streak is 1.
C14_SessionTouchesEngagement ==
    call.op = "recordSession" =>
        /\ ~Ledger_updateStreak(call.pre, [k |-> "Date", t |-> now]).threw
        /\ Engagement(ls)
              = Engagement(Ledger_updateStreak(call.pre, [k |-> "Date", t |-> now]).ls)
        /\ (/\ call.pre = EmptyStorage
            /\ call.arg.id = "bubble" /\ call.arg.difficulty = "easy"
            /\ call.arg.score = FIRST_SESSION_SCORE)
               => /\ call.ret.isNewBest
                  /\ call.ret.totalSessions = 1
                  /\ storage_getInt(ls, bestKey("bubble"), 0) = FIRST_SESSION_SCORE
                  /\ storage_getInt(ls, "streak", 0) = 1

\* the third session, recorded the day after the second and two days after the
\* first one, which was recorded on empty storage with score 120
C14_Witness ==
    /\ call.op = "recordSession"
    /\ Len(log) = 3
    /\ log[1].score = FIRST_SESSION_SCORE /\ log[1].isNewBest /\ log[1].totalSessions = 1
    /\ storage_getInt(ls, bestKey("bubble"), 0) = FIRST_SESSION_SCORE
    /\ storage_getInt(call.pre, "streak", 0) = 2
    /\ storage_getInt(ls, "streak", 0) = 3
    /\ LastDay(ls) = LastDay(call.pre) + 1
    /\ LastDay(ls) = now \div HOURS_PER_DAY

(***************************************************************************)
(* Behaviours of one exercise's history: the first exercise is played      *)
(* session after session, an hour each, and its history is read.           *)
(***************************************************************************)
\* the sessions played
MaxHistorySessions == 102

\* the default limit of getSessionHistory
DEFAULT_HISTORY_LIMIT == 10

HistorySession(score) ==
    /\ Len(log) < MaxHistorySessions
    /\ LET Returned(r) ==
               /\ ~r.threw
               /\ ls' = r.ls
               /\ call' = Called("recordSession",
                                 [id |-> RegistrySeq[1], difficulty |-> "easy",
                                  score |-> score, extras |-> NoExtras], ls, r)
               /\ log' = Append(log, Logged(RegistrySeq[1], "easy", score, r))
       IN  Returned(recordSession(ls, RegistrySeq[1], "easy", score, NoExtras, now))
    /\ now' = now + 1
    /\ UNCHANGED <<impl, gam, awarded, transfers, unlocks, timer, enh>>

GetSessionHistory(limit) ==
    /\ LET Returned(r) ==
               /\ ls' = r.ls
               /\ call' = Called("getSessionHistory",
                                 [id |-> RegistrySeq[1], limit |-> limit], ls, r)
       IN  Returned(getSessionHistory(ls, RegistrySeq[1], limit))
    /\ UNCHANGED <<impl, now, gam, log, awarded, transfers, unlocks, timer, enh>>

NextHistory ==
    \/ HistorySession(MaxScore)
    \/ \E limit \in {1, DEFAULT_HISTORY_LIMIT} : GetSessionHistory(limit)

SpecHistory == InitPage /\ [][NextHistory]_vars

\* the history array a store holds for an exercise
StoredHistory(s, exerciseId) ==
    parseOrEmpty(storage_get(s, sessionHistoryKey(exerciseId), <<>>)).v

\* the smaller of two numbers
Min(a, b) == IF a < b THEN a ELSE b

\* C16: bounded history with FIFO eviction.  After n recordSession calls for
\* an exercise its stored history holds min(n, 100) entries, never more than
\* 100; each call leaves the entries of before in their order with the new
\* entry last, less the oldest ones beyond 100; and the entries are those of
\* the most recent sessions, one recorded each hour.
C16_BoundedFifoHistory ==
    /\ [](\A e \in ExerciseArgs :
             /\ Len(StoredHistory(ls, e)) = Min(Cardinality(CallsFor(log, e)), 100)
             /\ Len(StoredHistory(ls, e)) <= 100
             /\ \A i \in 1..Len(StoredHistory(ls, e)) :
                    StoredHistory(ls, e)[i].timestamp
                       = now - (Len(StoredHistory(ls, e)) - i) - 1)
    /\ [][call'.op = "recordSession" =>
            /\ StoredHistory(ls', call'.arg.id)
                  = SliceLast(Append(StoredHistory(ls, call'.arg.id),
                                     call'.ret.sessionEntry), 100)
            /\ \A e \in ExerciseArgs \ {call'.arg.id} :
                   StoredHistory(ls', e) = StoredHistory(ls, e)]_vars

\* 102 sessions recorded: the history holds the 100 of the third session and
\* after, the newest last
C16_Witness ==
    /\ call.op = "recordSession"
    /\ Len(log) = 102
    /\ Len(StoredHistory(call.pre, RegistrySeq[1])) = 100
    /\ Len(StoredHistory(ls, RegistrySeq[1])) = 100
    /\ StoredHistory(ls, RegistrySeq[1])[100] = call.ret.sessionEntry
    /\ StoredHistory(ls, RegistrySeq[1])[1] = StoredHistory(call.pre, RegistrySeq[1])[2]
    /\ StoredHistory(ls, RegistrySeq[1])[1].timestamp = FirstDay * HOURS_PER_DAY + 9 + 2

(***************************************************************************)
(* Behaviours of sessions recorded with extras: none, metrics of the       *)
(* exercise, or a map that names the core fields as well.                  *)
(***************************************************************************)
\* the keys recordSession sets itself
CoreFields == {"id", "difficulty", "score", "timestamp", "date"}

\* extras of an exercise's own metrics
MetricExtras == [accuracy |-> 90, moves |-> 7]

\* extras holding every core key besides a metric
CollidingExtras ==
    [id |-> "comet", difficulty |-> "medium", score |-> 999, timestamp |-> 0,
     date |-> <<"n", "o", "w">>, moves |-> 7]

ExtrasInputs == {NoExtras, MetricExtras, CollidingExtras}

NextExtras ==
    \E e \in RecordedExercises, sc \in {0, MaxScore}, extras \in ExtrasInputs :
        RecordSession(e, "easy", sc, extras)

SpecExtras == InitPage /\ [][NextExtras]_vars

\* C17: core fields win over extras.  Whatever the extras hold, the entry
\* recordSession returns is the one it stored last in the history of the
\* exercise, and its id, difficulty and score are the arguments and its
\* timestamp and date the recording time.
C17_CoreFieldsWin ==
    call.op = "recordSession" =>
        /\ call.ret.sessionEntry
              = StoredHistory(ls, call.arg.id)[Len(StoredHistory(ls, call.arg.id))]
        /\ call.ret.sessionEntry.id = call.arg.id
        /\ call.ret.sessionEntry.difficulty = call.arg.difficulty
        /\ call.ret.sessionEntry.score = call.arg.score
        /\ call.ret.sessionEntry.timestamp = now
        /\ call.ret.sessionEntry.date = toISOString(now)

\* a session recorded with extras naming every core field: the entry keeps
\* the metric of the extras and the arguments of the call
C17_Witness ==
    /\ call.op = "recordSession"
    /\ call.arg.extras = CollidingExtras
    /\ CoreFields \subseteq DOMAIN call.arg.extras
    /\ call.arg.id # call.arg.extras.id
    /\ call.arg.score # call.arg.extras.score
    /\ call.ret.sessionEntry.id = call.arg.id
    /\ call.ret.sessionEntry.score = call.arg.score
    /\ call.ret.sessionEntry.moves = 7
    /\ Len(StoredHistory(ls, call.arg.id)) = 2

(***************************************************************************)
(* Behaviours of the unlock engine: sessions of the first exercise on its  *)
(* two lower difficulties, page loads, and checks.                         *)
(***************************************************************************)
UnlockScores == {99, 150}

\* the sessions the unlock engine has recorded in a store
RecordedPerformances(s) ==
    SumSeq([i \in 1..Len(DIFFICULTIES) |->
               getPerformanceData(s, RegistrySeq[1], DIFFICULTIES[i]).sessions])

AdaptiveRecordSession(exerciseId, difficulty, score) ==
    /\ RecordedPerformances(ls) < MaxUnlockSessions
    /\ LET Returned(mid, r) ==
               /\ ls' = r.ls
               /\ call' = Called("checkAllUnlocks",
                                 [by |-> "recordSession", id |-> exerciseId,
                                  difficulty |-> difficulty, score |-> score], mid, r)
               /\ unlocks' = unlocks \o r.ret
       IN  Returned(recordPerformance(ls, exerciseId, difficulty, score),
                    adaptiveDifficulty_recordSession(ls, exerciseId, difficulty, score))
    /\ UNCHANGED <<impl, now, gam, log, awarded, transfers, timer, enh>>

CheckAllUnlocks ==
    /\ LET Returned(r) ==
               /\ ls' = r.ls
               /\ call' = Called("checkAllUnlocks", [by |-> "caller"], ls, r)
               /\ unlocks' = unlocks \o r.ret
       IN  Returned(checkAllUnlocks(ls))
    /\ UNCHANGED <<impl, now, gam, log, awarded, transfers, timer, enh>>

InitializeForExercise(exerciseId) ==
    /\ LET Returned(mid, r) ==
               /\ ls' = r.ls
               /\ call' = Called("checkAllUnlocks",
                                 [by |-> "initializeForExercise", id |-> exerciseId],
                                 mid, r)
               /\ unlocks' = unlocks \o r.ret
       IN  Returned(seedBaseUnlocks(ls, exerciseId), initializeForExercise(ls, exerciseId))
    /\ UNCHANGED <<impl, now, gam, log, awarded, transfers, timer, enh>>

NextUnlock ==
    \/ \E d \in {"easy", "medium"}, sc \in UnlockScores :
           AdaptiveRecordSession(RegistrySeq[1], d, sc)
    \/ CheckAllUnlocks
    \/ \E e \in Registry : InitializeForExercise(e)

SpecUnlock == InitPage /\ [][NextUnlock]_vars

(***************************************************************************)
(* Properties of the unlock engine.                                        *)
(***************************************************************************)
\* the last call of checkAllUnlocks returned the tier as newly unlocked
ReturnedUnlock(exerciseId, difficulty) ==
    \E i \in 1..Len(call.ret) :
        call.ret[i].exerciseId = exerciseId /\ call.ret[i].difficulty = difficulty

\* the prerequisite tier's performance in a store meets the tier's rule
MeetsRule(s, exerciseId, difficulty) ==
    LET rule == UNLOCK_RULES[exerciseId][difficulty]
        perf == getPerformanceData(s, exerciseId, rule.base)
    IN  perf.sessions >= rule.minSessions /\ perf.bestScore >= rule.minScore

\* C8: rule-based unlock.  checkAllUnlocks() returns a rule-gated tier as
\* newly unlocked, and adds it to the unlocked set, exactly when the tier was
\* not yet unlocked and its prerequisite tier's recorded performance has
\* sessions >= minSessions and bestScore >= minScore.
C8_RuleBasedUnlock ==
    call.op = "checkAllUnlocks" =>
        \A e \in Registry, d \in {"medium", "hard"} :
            /\ ReturnedUnlock(e, d)
                  <=> (~isUnlocked(call.pre, e, d) /\ MeetsRule(call.pre, e, d))
            /\ isUnlocked(ls, e, d)
                  <=> (isUnlocked(call.pre, e, d) \/ MeetsRule(call.pre, e, d))

\* the fifth easy session, best 150: the check returns medium as newly unlocked
C8_Witness ==
    /\ call.op = "checkAllUnlocks"
    /\ getPerformanceData(call.pre, RegistrySeq[1], "easy").sessions = 5
    /\ getPerformanceData(call.pre, RegistrySeq[1], "easy").bestScore = 150
    /\ ~isUnlocked(call.pre, RegistrySeq[1], "medium")
    /\ ReturnedUnlock(RegistrySeq[1], "medium")
    /\ isUnlocked(ls, RegistrySeq[1], "medium")

\* C18: checkAllUnlocks() is safe to call redundantly.  A check that follows a
\* check, no session having been recorded in between, returns the empty list
\* and leaves the store as it found it; and over sessions, page loads and
\* checks no (exercise, difficulty) is returned as newly unlocked twice.
C18_RedundantCheckSafe ==
    /\ [][(/\ call.op = "checkAllUnlocks" /\ call'.op = "checkAllUnlocks"
           /\ call'.arg.by # "recordSession")
              => (call'.ret = <<>> /\ ls' = call'.pre)]_vars
    /\ [](\A i, j \in 1..Len(unlocks) : unlocks[i] = unlocks[j] => i = j)

\* a check that returned nothing and wrote nothing although the rule of the
\* medium tier is met, the tier having been returned by an earlier check
C18_Witness ==
    /\ call.op = "checkAllUnlocks"
    /\ call.arg.by = "caller"
    /\ call.ret = <<>>
    /\ ls = call.pre
    /\ MeetsRule(call.pre, RegistrySeq[1], "medium")
    /\ isUnlocked(call.pre, RegistrySeq[1], "medium")
    /\ unlocks = <<[exerciseId |-> RegistrySeq[1], difficulty |-> "medium"]>>

(***************************************************************************)
(* Behaviours of the safety gate: sessions of the first exercise on its    *)
(* two lower tiers, and questions about any exercise and tier.             *)
(***************************************************************************)
\* a difficulty no exercise has
UNKNOWN_DIFFICULTY == "expert"

\* the tables DIFFICULTY_LABELS may be: the module that exports it is not in
\* the repository, so the gate is run with no labels, with a label for every
\* tier, and with an empty label
LabelTables ==
    {[d \in {} |-> ""],
     [d \in DifficultySet |-> "Level " \o d],
     [d \in {"medium"} |-> ""]}

CheckTherapeuticSafety(exerciseId, requestedDifficulty) ==
    /\ call' = Called("checkTherapeuticSafety",
                      [id |-> exerciseId, difficulty |-> requestedDifficulty], ls,
                      Result(ls, checkTherapeuticSafety(ls, exerciseId, requestedDifficulty)))
    /\ UNCHANGED <<ls, impl, now, gam, log, awarded, transfers, unlocks, timer, enh>>

GetTherapeuticSafetyMessage(labels, exerciseId, requestedDifficulty) ==
    /\ call' = Called("getTherapeuticSafetyMessage",
                      [id |-> exerciseId, difficulty |-> requestedDifficulty,
                       labels |-> labels], ls,
                      Result(ls, getTherapeuticSafetyMessage(ls, labels, exerciseId,
                                                             requestedDifficulty)))
    /\ UNCHANGED <<ls, impl, now, gam, log, awarded, transfers, unlocks, timer, enh>>

NextSafety ==
    \/ \E d \in {"easy", "medium"} : AdaptiveRecordSession(RegistrySeq[1], d, MaxScore)
    \/ \E e \in ExerciseArgs, d \in DifficultySet \cup {UNKNOWN_DIFFICULTY} :
           CheckTherapeuticSafety(e, d)
    \/ \E labels \in LabelTables, e \in ExerciseArgs,
          d \in DifficultySet \cup {UNKNOWN_DIFFICULTY} :
           GetTherapeuticSafetyMessage(labels, e, d)

SpecSafety == InitPage /\ [][NextSafety]_vars

\* the ordinal index of a tier in a registered exercise's list, from 0
TierIndex(difficulty) ==
    CHOOSE i \in 0..(Len(DIFFICULTIES) - 1) : DIFFICULTIES[i + 1] = difficulty

\* C21: therapeutic safety gate.  For a registered exercise,
\* checkTherapeuticSafety is true for its two easiest tiers, and for a tier at
\* ordinal index 2 or more it is true exactly when the tier just before it has
\* at least 2 recorded sessions.
C21_TherapeuticSafetyGate ==
    (/\ call.op = "checkTherapeuticSafety"
     /\ call.arg.id \in Registry /\ call.arg.difficulty \in DifficultySet)
        => IF TierIndex(call.arg.difficulty) < 2 THEN call.ret = TRUE
           ELSE call.ret
                  = (getPerformanceData(ls, call.arg.id,
                                        DIFFICULTIES[TierIndex(call.arg.difficulty)]).sessions
                       >= 2)

\* the hard tier asked for after two medium sessions: the gate says safe
C21_Witness ==
    /\ call.op = "checkTherapeuticSafety"
    /\ call.arg = [id |-> RegistrySeq[1], difficulty |-> "hard"]
    /\ getPerformanceData(ls, RegistrySeq[1], "medium").sessions = 2
    /\ getPerformanceData(ls, RegistrySeq[1], "easy").sessions = 0
    /\ call.ret = TRUE

\* the hard tier asked for after one medium session: the gate says unsafe
GateRefuses ==
    /\ call.op = "checkTherapeuticSafety"
    /\ call.arg = [id |-> RegistrySeq[1], difficulty |-> "hard"]
    /\ getPerformanceData(ls, RegistrySeq[1], "medium").sessions = 1
    /\ call.ret = FALSE

\* C22: whenever the gate reports the requested tier as unsafe,
\* getTherapeuticSafetyMessage returns a non-empty explanation for the same
\* arguments, and null whenever the gate reports it as safe.
C22_MessageMatchesGate ==
    call.op = "getTherapeuticSafetyMessage" =>
        IF checkTherapeuticSafety(ls, call.arg.id, call.arg.difficulty)
        THEN call.ret = <<>>
        ELSE Len(call.ret) = 1 /\ call.ret[1] # ""

\* the same for the exercises of the registry
MessageMatchesGateInRegistry ==
    (call.op = "getTherapeuticSafetyMessage" /\ call.arg.id \in Registry)
        => IF checkTherapeuticSafety(ls, call.arg.id, call.arg.difficulty)
           THEN call.ret = <<>>
           ELSE Len(call.ret) = 1 /\ call.ret[1] # ""

\* a message for the hard tier after one medium session
MessageGiven ==
    /\ call.op = "getTherapeuticSafetyMessage"
    /\ call.arg.id = RegistrySeq[1] /\ call.arg.difficulty = "hard"
    /\ call.arg.labels = [d \in {"medium"} |-> ""]
    /\ getPerformanceData(ls, RegistrySeq[1], "medium").sessions = 1
    /\ call.ret = <<"(!) Try medium a bit more (1/2 sessions) before moving up.">>

(***************************************************************************)
(* Behaviours of the achievement engine: sessions recorded, exercises      *)
(* marked as tried, and checks with or without an entry and stats.         *)
(***************************************************************************)
Ach_checkAndUnlockAchievements(s, entryArg, statsArg, t) ==
    IF impl.achievements = "first" THEN checkAndUnlockAchievements(s, entryArg, statsArg, t)
    ELSE second_checkAndUnlockAchievements(s, t)

\* the entries a caller passes: none, or the latest session's metrics
EntryArgs ==
    {<<>>, <<[perfects |-> 5, streak |-> 10]>>, <<[difficulty |-> "hard", score |-> 1000]>>}

\* the stats a caller passes: none (they are read from storage), or its own
StatsArgs ==
    {<<>>,
     <<[totalSessions |-> 50, streak |-> 7, triedCount |-> 0,
        totalExercises |-> Len(RegistrySeq), newPersonalBest |-> TRUE]>>}

\* stats a caller passes that make every condition reading them throw
NullStats == <<JNull>>

CheckAndUnlockAchievements(entryArg, statsArg) ==
    /\ LET Returned(r) ==
               /\ ls' = r.ls
               /\ call' = Called("checkAndUnlockAchievements",
                                 [entry |-> entryArg, stats |-> statsArg], ls, r)
               /\ awarded' = awarded \o r.ret
       IN  Returned(Ach_checkAndUnlockAchievements(ls, entryArg, statsArg, now))
    /\ UNCHANGED <<impl, now, gam, log, transfers, unlocks, timer, enh>>

MarkExerciseTried(exerciseId) ==
    /\ ls' = markExerciseTried(ls, exerciseId)
    /\ call' = Called("markExerciseTried", exerciseId, ls, Result(ls', <<>>))
    /\ UNCHANGED <<impl, now, gam, log, awarded, transfers, unlocks, timer, enh>>

NextAch ==
    \/ \E e \in RecordedExercises :
           Len(log) < MaxAchSessions /\ RecordSession(e, "hard", MaxScore, NoExtras)
    \/ \E e \in Registry : MarkExerciseTried(e)
    \/ \E entryArg \in EntryArgs, statsArg \in StatsArgs :
           CheckAndUnlockAchievements(entryArg, statsArg)

InitAch == Init /\ impl.ledger = "part_003"

SpecAch == InitAch /\ [][NextAch]_vars

(***************************************************************************)
(* Properties of the achievement engine.                                   *)
(***************************************************************************)
\* C9: achievement unlock-once.  A check made right after a check with the
\* same arguments, nothing else having touched the store, returns the empty
\* list; and over sessions, tried marks and checks no achievement id is
\* returned as newly unlocked twice.
C9_UnlockOnce ==
    /\ [][(/\ call.op = "checkAndUnlockAchievements"
           /\ call'.op = "checkAndUnlockAchievements"
           /\ call'.arg = call.arg) => call'.ret = <<>>]_vars
    /\ [](\A i, j \in 1..Len(awarded) : awarded[i] = awarded[j] => i = j)

\* a check that returned nothing although firstSteps' condition holds, the id
\* having been returned by an earlier check
C9_Witness ==
    /\ call.op = "checkAndUnlockAchievements"
    /\ call.ret = <<>>
    /\ call.arg.stats = <<>>
    /\ storage_getInt(call.pre, "totalSessions", 0) >= 1
    /\ Includes(awarded, "firstSteps")
    /\ Includes(getUnlockedSet(ls), "firstSteps")

\* checks with null stats, among sessions, marked exercises and plain checks
NextIsolation ==
    \/ \E e \in RecordedExercises :
           Len(log) < MaxAchSessions /\ RecordSession(e, "hard", MaxScore, NoExtras)
    \/ \E e \in Registry : MarkExerciseTried(e)
    \/ \E entryArg \in EntryArgs : CheckAndUnlockAchievements(entryArg, NullStats)
    \/ CheckAndUnlockAchievements(<<>>, <<>>)

SpecIsolation == InitAch /\ [][NextIsolation]_vars

\* the entry a check evaluated: the one passed, or {}
EntryOf(entryArg) == IF Len(entryArg) = 0 THEN [k \in {} |-> 0] ELSE entryArg[1]

\* C23: achievement isolation.  A check of the first version whose stats are
\* null, so that every condition reading stats throws, does not throw itself;
\* the achievements whose condition threw stay as they were and are not
\* returned; and every other achievement not yet unlocked whose condition is
\* true is unlocked and returned by the same call.
C23_AchievementIsolation ==
    (/\ call.op = "checkAndUnlockAchievements" /\ impl.achievements = "first"
     /\ call.arg.stats = NullStats)
        => /\ ~call.threw
           /\ \A id \in AchievementSet :
                  IF conditionThrows(id, EntryOf(call.arg.entry), JNull)
                  THEN /\ ~Includes(call.ret, id)
                       /\ Includes(getUnlockedSet(ls), id)
                             <=> Includes(getUnlockedSet(call.pre), id)
                  ELSE (/\ ~Includes(getUnlockedSet(call.pre), id)
                        /\ condition(id, EntryOf(call.arg.entry), JNull))
                          => (Includes(call.ret, id) /\ Includes(getUnlockedSet(ls), id))

\* a check with null stats and an entry of 5 perfects and a streak of 10: the
\* five conditions on stats threw, the two on the entry unlocked
C23_Witness ==
    /\ call.op = "checkAndUnlockAchievements" /\ impl.achievements = "first"
    /\ call.arg.stats = NullStats
    /\ call.arg.entry = <<[perfects |-> 5, streak |-> 10]>>
    /\ ~call.threw
    /\ call.ret = <<"perfect_5", "streak_10">>
    /\ storage_getInt(call.pre, "totalSessions", 0) >= 1
    /\ ~Includes(getUnlockedSet(ls), "firstSteps")
    /\ Includes(getUnlockedSet(ls), "perfect_5")

(***************************************************************************)
(* Behaviours of the new-personal-best flag: sessions of the first         *)
(* exercise, checks that compute their stats from storage, and reads by    *)
(* checkAndClearPersonalBestFlag.                                          *)
(***************************************************************************)
CheckAndClearPersonalBestFlag ==
    /\ LET Returned(r) ==
               /\ ls' = r.ls
               /\ call' = Called("checkAndClearPersonalBestFlag", <<>>, ls, r)
       IN  Returned(checkAndClearPersonalBestFlag(ls))
    /\ UNCHANGED <<impl, now, gam, log, awarded, transfers, unlocks, timer, enh>>

NextFlag ==
    \/ \E sc \in 0..MaxScore : RecordSession(RegistrySeq[1], "easy", sc, NoExtras)
    \/ CheckAndUnlockAchievements(<<>>, <<>>)
    \/ CheckAndClearPersonalBestFlag

SpecFlag == InitAch /\ [][NextFlag]_vars

\* the calls that read the flag
FlagReads == {"checkAndUnlockAchievements", "checkAndClearPersonalBestFlag"}

\* what the read of a call found: the value checkAndClearPersonalBestFlag
\* returned, or the newPersonalBest the check read from the store
FlagReported(c) ==
    IF c.op = "checkAndClearPersonalBestFlag" THEN c.ret
    ELSE getBool(c.pre, "newPersonalBest", FALSE)

\* C15: the new-personal-best flag is observed at most once.  The read that
\* follows a session that set the flag reports true, and a read that follows
\* a read, no session having been recorded in between, reports false.
C15_FlagObservedOnce ==
    /\ [][(/\ call.op = "recordSession" /\ call.ret.isNewBest
           /\ call'.op \in FlagReads) => FlagReported(call')]_vars
    /\ [][(call.op \in FlagReads /\ call'.op \in FlagReads)
             => ~FlagReported(call')]_vars

\* the flag as checkAndClearPersonalBestFlag alone reads it: its first read
\* after a session that set the flag returns true, and its next one false
FlagClearedByClearingRead ==
    [][(call'.op = "checkAndClearPersonalBestFlag")
          => /\ call'.ret = (ls[PREFIX \o "newPersonalBest"] = <<STR_true>>)
             /\ ls'[PREFIX \o "newPersonalBest"] # <<STR_true>>]_vars

(***************************************************************************)
(* Behaviours of the gamification ledger: awards, imports of a backup      *)
(* document, resets, page reloads and an export followed by its import.    *)
(***************************************************************************)
AwardSessionPoints(isPersonalBest, currentStreak) ==
    /\ gam.sessionsCompleted < MaxAwards
    /\ LET Returned(r) ==
               /\ gam' = r.gam
               /\ ls' = saveProgress(ls, r.gam)
               /\ call' = [op |-> "awardSessionPoints",
                           arg |-> [isPersonalBest |-> isPersonalBest,
                                    currentStreak |-> currentStreak],
                           pre |-> ls, ret |-> r.ret, threw |-> FALSE]
       IN  Returned(awardSessionPoints(gam, isPersonalBest, currentStreak))
    /\ UNCHANGED <<impl, now, log, awarded, transfers, unlocks, timer, enh>>

\* backup documents a user may pick: another schema version, a level that
\* is not the level of the points, points without a level, the top level,
\* and one session short of the top level
GamDocs ==
    {JObj([version |-> JNum(2), totalPoints |-> JNum(500)]),
     JObj([version |-> JNum(1), totalPoints |-> JNum(9950), currentLevel |-> JNum(9),
           sessionsCompleted |-> JNum(2)]),
     JObj([version |-> JNum(1), totalPoints |-> JNum(500), currentLevel |-> JNum(2),
           sessionsCompleted |-> JNum(3)]),
     JObj([version |-> JNum(1), totalPoints |-> JNum(200), sessionsCompleted |-> JNum(3)]),
     JObj([version |-> JNum(1), totalPoints |-> JNum(10000), currentLevel |-> JNum(10),
           sessionsCompleted |-> JNum(3)])}

GamImportData(data) ==
    /\ LET Returned(r) ==
               /\ gam' = r.gam
               /\ ls' = IF r.ret THEN saveProgress(ls, r.gam) ELSE ls
               /\ call' = [op |-> "Gam_importData", arg |-> data, pre |-> ls,
                           ret |-> r.ret, threw |-> FALSE]
       IN  Returned(Gam_importData(gam, data))
    /\ UNCHANGED <<impl, now, log, awarded, transfers, unlocks, timer, enh>>

GamExportThenImport ==
    /\ LET Returned(data, r) ==
               /\ gam' = r.gam
               /\ ls' = IF r.ret THEN saveProgress(ls, r.gam) ELSE ls
               /\ call' = [op |-> "Gam_exportThenImport", arg |-> data, pre |-> ls,
                           ret |-> r.ret, threw |-> FALSE]
           Import(data) == Returned(data, Gam_importData(gam, data))
       IN  Import(Gam_exportData(gam, now))
    /\ UNCHANGED <<impl, now, log, awarded, transfers, unlocks, timer, enh>>

GamResetProgress ==
    /\ gam' = Gam_resetProgress
    /\ ls' = saveProgress(ls, Gam_resetProgress)
    /\ call' = [op |-> "Gam_resetProgress", arg |-> <<>>, pre |-> ls,
                ret |-> <<>>, threw |-> FALSE]
    /\ UNCHANGED <<impl, now, log, awarded, transfers, unlocks, timer, enh>>

\* a page load: the constructor runs loadProgress
LoadPage ==
    /\ gam' = loadProgress(ls)
    /\ call' = [op |-> "loadProgress", arg |-> <<>>, pre |-> ls,
                ret |-> <<>>, threw |-> FALSE]
    /\ UNCHANGED <<ls, impl, now, log, awarded, transfers, unlocks, timer, enh>>

\* the dashboard reads the figures it displays
GetCurrentStats ==
    /\ call' = [op |-> "getCurrentStats", arg |-> <<>>, pre |-> ls,
                ret |-> getCurrentStats(gam), threw |-> FALSE]
    /\ UNCHANGED <<ls, impl, now, gam, log, awarded, transfers, unlocks, timer, enh>>

NextGam ==
    \/ GetCurrentStats
    \/ \E isPersonalBest \in BOOLEAN, currentStreak \in {0, 1, 2, 7} :
           AwardSessionPoints(isPersonalBest, currentStreak)
    \/ \E data \in GamDocs : GamImportData(data)
    \/ GamExportThenImport
    \/ GamResetProgress
    \/ LoadPage

SpecGam == InitPage /\ [][NextGam]_vars

\* C7: level is always derived from points.  In every state of the
\* gamification ledger reached through loadProgress, awardSessionPoints,
\* importData and resetProgress the reported level is
\* calculateLevel(totalPoints).
C7_LevelDerivedFromPoints == gam.currentLevel = calculateLevel(gam.totalPoints)

\* C26: points formula.  Every awardSessionPoints call earns 50 points, plus
\* 25 if isPersonalBest, plus 10 for each day of currentStreak beyond the
\* first, five days at most, when currentStreak > 1; what it earns lies
\* between 50 and 125, it returns that amount, and totalPoints grows by
\* exactly that amount, so an award never lowers totalPoints.
C26_PointsFormula ==
    [][call'.op = "awardSessionPoints" =>
          LET streak == call'.arg.currentStreak
              days == IF streak - 1 < 5 THEN streak - 1 ELSE 5
              earned == 50 + (IF call'.arg.isPersonalBest THEN 25 ELSE 0)
                           + (IF streak > 1 THEN 10 * days ELSE 0)
          IN  /\ call'.ret.pointsEarned = earned
              /\ earned \in 50..125
              /\ gam'.totalPoints = gam.totalPoints + earned
              /\ call'.ret.totalPoints = gam'.totalPoints
              /\ gam'.totalPoints >= gam.totalPoints]_vars

\* a personal best on a streak of seven days has earned the most a session can
C26_Witness ==
    /\ call.op = "awardSessionPoints"
    /\ call.arg.isPersonalBest
    /\ call.arg.currentStreak = 7
    /\ call.ret.pointsEarned = 125
    /\ gam.totalPoints >= 125

\* the highest level of the table and the points it starts at
MAX_LEVEL == Len(levelThresholds)
TopThreshold == levelThresholds[MAX_LEVEL]

\* what getCurrentStats reports of a ledger that has nothing left to reach
Saturated(stats) ==
    /\ stats.currentLevel = 10
    /\ stats.isMaxLevel
    /\ stats.pointsToNextLevel = 0
    /\ stats.progressToNextLevel = 100
    /\ stats.levelInfo = 10

\* C27: max-level saturation.  An award that leaves totalPoints at or above
\* the highest threshold (10000, level 10) has raised totalPoints and leaves
\* the level at the maximum, and getCurrentStats then reports 0 points to the
\* next level, 100 percent progress and the last entry of the table; every
\* read of getCurrentStats at the maximum level reports the same.
C27_MaxLevelSaturation ==
    [][/\ (call'.op = "awardSessionPoints" /\ gam'.totalPoints >= 10000) =>
              /\ gam'.totalPoints > gam.totalPoints
              /\ gam'.currentLevel = 10
              /\ call'.ret.currentLevel = 10
              /\ getCurrentStats(gam').totalPoints = gam'.totalPoints
              /\ Saturated(getCurrentStats(gam'))
       /\ (call'.op = "getCurrentStats" /\ gam.currentLevel = 10) =>
              Saturated(call'.ret)]_vars

\* the figures are read after an award made at the top level already
C27_Witness ==
    /\ call.op = "getCurrentStats"
    /\ gam.sessionsCompleted = MaxAwards
    /\ gam.totalPoints > TopThreshold + baseSessionPoints
    /\ gam.currentLevel = MAX_LEVEL
    /\ Saturated(call.ret)

(***************************************************************************)
(* Behaviours of the whole engine: sessions, days passing, achievement     *)
(* checks, point awards, exercise pages opening, and the transfer          *)
(* operations: export followed by import, import of a document, reset.     *)
(***************************************************************************)
AdvanceClock ==
    /\ now < (FirstDay + MaxClockDays) * HOURS_PER_DAY
    /\ now' = now + HOURS_PER_DAY
    /\ call' = [op |-> "clock", arg |-> <<>>, pre |-> ls, ret |-> <<>>, threw |-> FALSE]
    /\ UNCHANGED <<ls, impl, gam, log, awarded, transfers, unlocks, timer, enh>>

\* what a user observes of the stored state
Observable(s, g) ==
    [points |-> g.totalPoints,
     streak |-> storage_getInt(s, "streak", 0),
     sessions |-> [e \in ExerciseArgs |-> storage_getInt(s, sessionKey(e), 0)],
     best |-> [e \in ExerciseArgs |-> storage_getInt(s, bestKey(e), 0)],
     achievements |-> {getUnlockedSet(s)[i] : i \in 1..Len(getUnlockedSet(s))}]

\* exportData() of the ledger and of the gamification ledger, then importData
\* of the two documents, into the same store or into one emptied first (every
\* key of the namespace removed and the page loaded again)
ExportThenImport(wipe) ==
    /\ transfers < MaxTransfers
    /\ transfers' = transfers + 1
    /\ LET Returned(r, g) ==
               /\ ls' = IF g.ret THEN saveProgress(r.ls, g.gam) ELSE r.ls
               /\ gam' = g.gam
               /\ call' = Called("exportThenImport",
                                 [wipe |-> wipe, before |-> Observable(ls, gam)], ls, r)
           Import(base, data, gdata) ==
               Returned(Ledger_importData(base, data),
                        Gam_importData(IF wipe THEN loadProgress(base) ELSE gam, gdata))
       IN  Import(IF wipe THEN storage_clearAll(ls) ELSE ls,
                  Ledger_exportData(ls, now), Gam_exportData(gam, now))
    /\ UNCHANGED <<impl, now, log, awarded, unlocks, timer, enh>>

\* documents a user may import: another schema version, the legacy shape of
\* best, one whose second exercise is null, and null itself
ImportDocs ==
    {JObj([version |-> JNum(2), streak |-> JNum(5), totalSessions |-> JNum(9)]),
     JObj([version |-> JNum(1),
           exercises |-> JObj([bubble |->
               JObj([sessions |-> JNum(3),
                     best |-> JObj([easy |-> JNum(1), hard |-> JNum(2)])])])]),
     JObj([version |-> JNum(1),
           exercises |-> JObj([bubble |-> JObj([sessions |-> JNum(3), best |-> JNum(2)]),
                               typing |-> JNull])]),
     JNull}

ImportData(data) ==
    /\ transfers < MaxTransfers
    /\ transfers' = transfers + 1
    /\ LET Returned(r) ==
               /\ ls' = r.ls
               /\ call' = Called("importData", data, ls, r)
       IN  Returned(Ledger_importData(ls, data))
    /\ UNCHANGED <<impl, now, gam, log, awarded, unlocks, timer, enh>>

\* a session finished on an exercise page: the ledger records it
SessionOnPage(e) ==
    /\ Len(log) < MaxPageSessions
    /\ RecordSession(e, "easy", MaxScore, NoExtras)

\* the page then awards points with the flag and the streak the ledger stored
AwardOnPage ==
    /\ gam.sessionsCompleted < MaxPageAwards
    /\ AwardSessionPoints(getBool(ls, "newPersonalBest", FALSE),
                          storage_getInt(ls, "streak", 0))

\* the user resets all progress from the settings page
ResetOnPage ==
    /\ transfers < MaxTransfers
    /\ transfers' = transfers + 1
    /\ ResetProgressCall
    /\ UNCHANGED <<impl, now, gam, log, awarded, unlocks, timer, enh>>

(***************************************************************************)
(* Behaviours of the unlocked set over a user's life with one exercise:    *)
(* page loads, sessions recorded by the unlock engine and by the ledger,   *)
(* checks, an import and a reset.                                          *)
(***************************************************************************)
\* a score that meets every rule's minimum
PASSING_SCORE == 150

NextUnlockLife ==
    \/ \E d \in {"easy", "medium"} : AdaptiveRecordSession(RegistrySeq[1], d, PASSING_SCORE)
    \/ SessionOnPage(RegistrySeq[1])
    \/ CheckAllUnlocks
    \/ InitializeForExercise(RegistrySeq[1])
    \/ \E data \in ImportDocs : ImportData(data)
    \/ ResetOnPage

SpecUnlockLife == InitLedger /\ [][NextUnlockLife]_vars

\* C19: the unlocked set grows monotonically.  A tier that is unlocked stays
\* unlocked over every step that is a session, a check, a page load with its
\* seeding, or an import; only a reset may lock it again.
C19_UnlockedMonotone ==
    [][call'.op # "resetProgress" =>
          \A e \in Registry, d \in DifficultySet :
              isUnlocked(ls, e, d) => isUnlocked(ls', e, d)]_vars

\* an import that succeeded on a store whose medium tier was unlocked
C19_Witness ==
    /\ call.op = "importData"
    /\ call.ret.success
    /\ ls # call.pre
    /\ isUnlocked(call.pre, RegistrySeq[1], "medium")
    /\ isUnlocked(ls, RegistrySeq[1], "medium")
    /\ unlocks = <<[exerciseId |-> RegistrySeq[1], difficulty |-> "medium"]>>

\* a reset after which the medium tier, unlocked before, reads as locked
ResetLocksAgain ==
    /\ call.op = "resetProgress"
    /\ isUnlocked(call.pre, RegistrySeq[1], "medium")
    /\ ~isUnlocked(ls, RegistrySeq[1], "medium")

\* the store holds the first tier of the exercise as unlocked, which is what
\* isUnlocked reads where a rule gates the tier
Seeded(s, exerciseId) ==
    storage_get(s, unlockKey(exerciseId, DIFFICULTIES[1]), <<>>) = <<TRUE>>

\* C20: bootstrap seeding.  After initializeForExercise of a registered
\* exercise the store holds its first tier as unlocked, whatever the rules;
\* the tier stays so over every step but a reset; and an exercise seeded has at
\* least one tier unlocked.
C20_BootstrapSeeding ==
    /\ []((call.op = "checkAllUnlocks" /\ call.arg.by = "initializeForExercise")
            => /\ Seeded(call.pre, call.arg.id) /\ Seeded(ls, call.arg.id)
               /\ isUnlocked(ls, call.arg.id, DIFFICULTIES[1]))
    /\ [][call'.op # "resetProgress" =>
            \A e \in Registry : Seeded(ls, e) => Seeded(ls', e)]_vars
    /\ [](\A e \in Registry :
             Seeded(ls, e) => \E d \in DifficultySet : isUnlocked(ls, e, d))

\* an import into a store seeded by a page load, no tier beyond the first
\* being unlocked: the first tier is still held as unlocked
C20_Witness ==
    /\ call.op = "importData"
    /\ call.ret.success
    /\ Seeded(call.pre, RegistrySeq[1])
    /\ Seeded(ls, RegistrySeq[1])
    /\ ~isUnlocked(ls, RegistrySeq[1], "medium")
    /\ isUnlocked(ls, RegistrySeq[1], DIFFICULTIES[1])

(***************************************************************************)
(* Behaviours of the session-count achievements: backups that hold only    *)
(* per-exercise session counts are imported, a session is recorded, and    *)
(* the achievements are checked with no arguments.                         *)
(***************************************************************************)
\* a backup document holding only the session counts of the first exercises
CountsDoc(first, second) ==
    JObj([exercises |->
             JObj([i \in {RegistrySeq[1], RegistrySeq[2]} |->
                      JObj([sessions |-> JNum(IF i = RegistrySeq[1] THEN first
                                              ELSE second)])])])

CountDocs == {CountsDoc(1, 0), CountsDoc(30, 15), CountsDoc(35, 15)}

ImportCounts(data) ==
    /\ LET Returned(r) ==
               /\ ls' = r.ls
               /\ call' = Called("importData", data, ls, r)
       IN  Returned(Ledger_importData(ls, data))
    /\ UNCHANGED <<impl, now, gam, log, awarded, transfers, unlocks, timer, enh>>

NextCount ==
    \/ \E data \in CountDocs : ImportCounts(data)
    \/ Len(log) < MaxAchSessions /\ RecordSession(RegistrySeq[1], "easy", MaxScore, NoExtras)
    \/ CheckAndUnlockAchievements(<<>>, <<>>)

SpecCount == InitAch /\ [][NextCount]_vars

\* the store holds nothing but session counts of exercises
OnlyCounts(s) ==
    \A k \in LSKeys : k \notin {PREFIX \o sessionKey(e) : e \in ExerciseArgs} => s[k] = <<>>

\* a check with no arguments
PlainCheck ==
    call.op = "checkAndUnlockAchievements" /\ call.arg.entry = <<>> /\ call.arg.stats = <<>>

\* what C24 asks of a check with no arguments
CountsUnlock ==
    PlainCheck =>
        /\ (sumSessions(call.pre, 1) >= 1 /\ ~Includes(getUnlockedSet(call.pre), "firstSteps"))
              => (Includes(call.ret, "firstSteps") /\ Includes(getUnlockedSet(ls), "firstSteps"))
        /\ (sumSessions(call.pre, 1) >= 50 /\ ~Includes(getUnlockedSet(call.pre), "dedicated"))
              => (Includes(call.ret, "dedicated") /\ Includes(getUnlockedSet(ls), "dedicated"))
        /\ OnlyCounts(call.pre)
              => \A i \in 1..Len(call.ret) : call.ret[i] \in {"firstSteps", "dedicated"}

\* C24: session-count achievements key off the sessions recorded across all
\* exercises.  A check with no arguments unlocks firstSteps when the
\* per-exercise session counts sum to at least 1 and dedicated when they sum
\* to at least 50, and with only session counts stored it returns those
\* achievements and no others.
C24_SessionCountAchievements == CountsUnlock

\* the same of the second version of the module alone
CountsUnlockSecondVersion == impl.achievements = "second" => CountsUnlock

\* only the counts 35 and 15 stored: the second version returns both
BothReturned ==
    /\ PlainCheck /\ impl.achievements = "second"
    /\ OnlyCounts(call.pre)
    /\ sumSessions(call.pre, 1) = 50
    /\ call.ret = <<"firstSteps", "dedicated">>

(***************************************************************************)
(* Behaviours of the explorer achievement: exercises of the registry and   *)
(* one that is not in it are marked as tried, and the achievements are     *)
(* checked with no arguments.                                              *)
(***************************************************************************)
NextExplorer ==
    \/ \E e \in ExerciseArgs : MarkExerciseTried(e)
    \/ CheckAndUnlockAchievements(<<>>, <<>>)

SpecExplorer == InitAch /\ [][NextExplorer]_vars

\* the ids a store holds as tried
TriedSet(s) ==
    LET triedList == getJSON(s, "tried", JArr(<<>>))
    IN  IF triedList.t = "array" THEN {triedList.v[i] : i \in 1..Len(triedList.v)} ELSE {}

\* C25: the explorer achievement is unlocked only if every exercise of the
\* registry has been marked as tried.  A check with no arguments that returns
\* explorer found every registry id in the tried list; marking fewer, or ids
\* that are not in the registry, does not unlock it.
C25_ExplorerNeedsEveryExercise ==
    (PlainCheck /\ Includes(call.ret, "explorer")) => Registry \subseteq TriedSet(call.pre)

\* explorer returned with every exercise of the registry tried
ExplorerEarned ==
    /\ PlainCheck /\ Includes(call.ret, "explorer")
    /\ TriedSet(call.pre) = Registry

(***************************************************************************)
(* Behaviours of an import over existing progress: sessions are recorded,  *)
(* then a backup document is imported.                                     *)
(***************************************************************************)
\* backup documents: everything given with a plain number as best and lower
\* figures than sessions leave; one exercise only, with the legacy object as
\* best, and no global field; a legacy object that has no easy tier
ReplaceDocs ==
    {JObj([version |-> JNum(1),
           exercises |-> JObj([bubble |-> JObj([sessions |-> JNum(5), best |-> JNum(1)]),
                               comet |-> JObj([sessions |-> JNum(1), best |-> JNum(1)])]),
           totalSessions |-> JNum(6), streak |-> JNum(4),
           achievements |-> JArr(<<"consistent">>)]),
     JObj([version |-> JNum(1),
           exercises |-> JObj([bubble |->
               JObj([sessions |-> JNum(5),
                     best |-> JObj([easy |-> JNum(1), hard |-> JNum(3)])])])]),
     JObj([version |-> JNum(1),
           exercises |-> JObj([bubble |->
               JObj([sessions |-> JNum(5), best |-> JObj([medium |-> JNum(3)])])])])}

NextImport ==
    \/ \E e \in Registry, sc \in 1..MaxScore : RecordSession(e, "easy", sc, NoExtras)
    \/ \E data \in ReplaceDocs : ImportData(data)

SpecImport == InitLedger /\ [][NextImport]_vars

\* an import has returned success
ImportSucceeded == call.op = "importData" /\ ~call.threw /\ call.ret.success

\* the value a document gives for a best: the number, or the greatest value
\* of the legacy object
DocBest(bestVal) == IF bestVal.t = "number" THEN bestVal.v ELSE MaxOfNumbers(bestVal)

\* the exercises a document gives, and what it gives for one of them
DocExercises(data) == IF Field(data, "exercises").t = "object"
                      THEN DOMAIN Field(data, "exercises").v ELSE {}
DocExercise(data, e) == Field(Field(data, "exercises"), e)

\* every field the document gives is stored with the document's value
ImportedFieldsReplaced(s, data) ==
    /\ \A e \in DocExercises(data) :
           /\ HasField(DocExercise(data, e), "sessions") =>
                  storage_get(s, sessionKey(e), <<>>)
                      = <<NatToStr(Field(DocExercise(data, e), "sessions").v)>>
           /\ HasField(DocExercise(data, e), "best") =>
                  storage_get(s, bestKey(e), <<>>)
                      = <<NatToStr(DocBest(Field(DocExercise(data, e), "best")))>>
    /\ HasField(data, "totalSessions") =>
           storage_getInt(s, "totalSessions", 0) = Field(data, "totalSessions").v
    /\ HasField(data, "streak") => storage_getInt(s, "streak", 0) = Field(data, "streak").v
    /\ HasField(data, "achievements") => getUnlockedSet(s) = Field(data, "achievements").v

\* what the store held and the document does not give reads as none
AbsentDataGone(s, data) ==
    /\ \A e \in ExerciseArgs \ DocExercises(data) :
           /\ storage_getInt(s, sessionKey(e), 0) = 0
           /\ storage_getInt(s, bestKey(e), 0) = 0
    /\ ~HasField(data, "totalSessions") => storage_getInt(s, "totalSessions", 0) = 0
    /\ ~HasField(data, "streak") => storage_getInt(s, "streak", 0) = 0
    /\ ~HasField(data, "achievements") => getUnlockedSet(s) = <<>>

\* C28: import uses a replace policy.  After a successful import every field
\* the document gives is stored with the document's value, not merged with
\* or added to the old one, and progress data the store held before that the
\* document does not give is no longer there.
C28_ImportReplaces ==
    ImportSucceeded => /\ ImportedFieldsReplaced(ls, call.arg)
                       /\ AbsentDataGone(ls, call.arg)

\* part_003 stores every field the document gives with the document's value
GivenFieldsReplaced ==
    (ImportSucceeded /\ impl.ledger = "part_003") => ImportedFieldsReplaced(ls, call.arg)

\* sessions of an exercise outlive an import whose document leaves it out
AbsentDataKept ==
    /\ ImportSucceeded
    /\ \E e \in Registry \ DocExercises(call.arg) :
           /\ storage_getInt(call.pre, sessionKey(e), 0) > 0
           /\ storage_getInt(ls, sessionKey(e), 0) = storage_getInt(call.pre, sessionKey(e), 0)

\* the exercises for which a document gives a best, as a number or an object
DocBests(data) ==
    {e \in DocExercises(data) :
        Field(DocExercise(data, e), "best").t \in {"number", "object"}}

\* C29: import normalises legacy best shapes.  importData accepts a best
\* given as a plain number or as an object keyed by difficulty, and the
\* personal best stored afterwards is a single number: the number itself,
\* or the maximum of the object's values.
C29_LegacyBestNormalised ==
    ImportSucceeded =>
        \A e \in DocBests(call.arg) :
            storage_get(ls, bestKey(e), <<>>)
                = <<NatToStr(DocBest(Field(DocExercise(call.arg, e), "best")))>>

\* part_003 stores the number, or the maximum of the object's values
LegacyBestNormalisedByPart003 ==
    impl.ledger = "part_003" => C29_LegacyBestNormalised

\* part_003 has replaced a higher best by the maximum of a legacy object
LegacyBestImported ==
    /\ ImportSucceeded /\ impl.ledger = "part_003"
    /\ Field(DocExercise(call.arg, "bubble"), "best").t = "object"
    /\ storage_getInt(call.pre, bestKey("bubble"), 0) > 0
    /\ storage_getInt(ls, bestKey("bubble"), 0) = 3

(***************************************************************************)
(* Behaviours of the wipes: the application fills its namespace, another   *)
(* application of the same origin writes its own key, and the store is     *)
(* wiped by storage.clearAll, clearAllFPRData or resetProgress.            *)
(***************************************************************************)
\* what the other application stores under its key
OtherValues == {<<"s", "h", "o", "u", "l", "d", "_", "r", "e", "m", "a", "i", "n">>,
                <<"F", "P", "R", "_", "v", "1", "_">>}

OtherAppWrites(v) ==
    /\ ls[OTHER_KEY] # <<v>>
    /\ ls' = [ls EXCEPT ![OTHER_KEY] = <<v>>]
    /\ call' = [op |-> "otherApp", arg |-> v, pre |-> ls, ret |-> <<>>, threw |-> FALSE]
    /\ UNCHANGED <<impl, now, gam, log, awarded, transfers, unlocks, timer, enh>>

StorageClearAll ==
    /\ ls' = storage_clearAll(ls)
    /\ call' = [op |-> "storage.clearAll", arg |-> <<>>, pre |-> ls, ret |-> <<>>,
                threw |-> FALSE]
    /\ UNCHANGED <<impl, now, gam, log, awarded, transfers, unlocks, timer, enh>>

ClearAllFPRData ==
    /\ ls' = clearAllFPRData(ls)
    /\ call' = [op |-> "clearAllFPRData", arg |-> <<>>, pre |-> ls, ret |-> <<>>,
                threw |-> FALSE]
    /\ UNCHANGED <<impl, now, gam, log, awarded, transfers, unlocks, timer, enh>>

NextWipe ==
    \/ \E e \in ExerciseArgs : SessionOnPage(e)
    \/ AwardOnPage
    \/ MarkExerciseTried(RegistrySeq[1])
    \/ \E v \in OtherValues : OtherAppWrites(v)
    \/ StorageClearAll
    \/ ClearAllFPRData
    \/ ResetProgress

SpecWipe == InitLedger /\ [][NextWipe]_vars

\* the wipes that promise to remove the whole namespace: storage.clearAll,
\* clearAllFPRData and the resetProgress of progress.js
NamespaceWiped ==
    \/ call.op \in {"storage.clearAll", "clearAllFPRData"}
    \/ call.op = "resetProgress" /\ impl.ledger = "progress"

\* C30: wipes touch only the system's own namespace.  After storage.clearAll,
\* clearAllFPRData or progress.js's resetProgress no key that starts with
\* FPR_v1_ is left, and after any wipe every key without the prefix holds
\* what it held before, whatever that is.
C30_WipesOnlyOwnNamespace ==
    /\ NamespaceWiped => \A k \in PrefixedKeys : ls[k] = <<>>
    /\ call.op \in {"storage.clearAll", "clearAllFPRData", "resetProgress"} =>
           \A k \in LSKeys \ PrefixedKeys : ls[k] = call.pre[k]

\* clearAllFPRData has removed sessions, points and the tried list and left
\* the other application's value
C30_Witness ==
    /\ call.op = "clearAllFPRData"
    /\ call.pre[PREFIX \o "totalSessions"] # <<>>
    /\ call.pre[TOTAL_POINTS_KEY] # <<>>
    /\ call.pre[PREFIX \o "tried"] # <<>>
    /\ call.pre[OTHER_KEY] # <<>>
    /\ ls[OTHER_KEY] = call.pre[OTHER_KEY]
    /\ ls[PREFIX \o "totalSessions"] = <<>>

\* progress.js's resetProgress has emptied a filled namespace next to a foreign key
ResetWipedNamespace ==
    /\ call.op = "resetProgress" /\ impl.ledger = "progress"
    /\ call.pre[PREFIX \o "totalSessions"] # <<>>
    /\ call.pre[OTHER_KEY] # <<>>
    /\ ls[OTHER_KEY] = call.pre[OTHER_KEY]

(***************************************************************************)
(* Behaviours under storage failures: localStorage stops working or fills  *)
(* up, an item is overwritten with a value of another shape, and the       *)
(* storage wrapper and the ledger of part_003 are called.                  *)
(***************************************************************************)
\* localStorage changes its condition
StoreCondition(c) ==
    /\ ls[LS_STATE] # c
    /\ ls' = [ls EXCEPT ![LS_STATE] = c]
    /\ call' = [op |-> "environment", arg |-> c, pre |-> ls, ret |-> <<>>, threw |-> FALSE]
    /\ UNCHANGED <<impl, now, gam, log, awarded, transfers, unlocks, timer, enh>>

\* items of another shape than the ledger writes: the item 5 under a session
\* history, a text that is no date under lastActiveDate, a text that is no
\* number under totalSessions
MalformedItems ==
    {[key |-> sessionHistoryKey(RegistrySeq[1]), item |-> JSON_stringify(JNum(5))],
     [key |-> "lastActiveDate", item |-> NOT_A_DATE],
     [key |-> "totalSessions", item |-> NOT_A_DATE]}

\* localStorage.setItem(PREFIX + key, item) from outside the application
CorruptItem(m) ==
    /\ ls[LS_STATE] = <<>>
    /\ ls[PREFIX \o m.key] # <<m.item>>
    /\ ls' = [ls EXCEPT ![PREFIX \o m.key] = <<m.item>>]
    /\ call' = [op |-> "environment", arg |-> <<>>, pre |-> ls, ret |-> <<>>, threw |-> FALSE]
    /\ UNCHANGED <<impl, now, gam, log, awarded, transfers, unlocks, timer, enh>>

\* the fallback the callers of getInt supply
SUPPLIED_DEFAULT == 7

StorageGetInt(key) ==
    /\ call' = [op |-> "storage.getInt", arg |-> key, pre |-> ls,
                ret |-> storage_getInt(ls, key, SUPPLIED_DEFAULT), threw |-> FALSE]
    /\ UNCHANGED <<ls, impl, now, gam, log, awarded, transfers, unlocks, timer, enh>>

StorageGet(key) ==
    /\ call' = [op |-> "storage.get", arg |-> key, pre |-> ls,
                ret |-> storage_get(ls, key, <<>>), threw |-> FALSE]
    /\ UNCHANGED <<ls, impl, now, gam, log, awarded, transfers, unlocks, timer, enh>>

StorageSet(key, value) ==
    /\ ls' = storage_set(ls, key, value)
    /\ call' = [op |-> "storage.set", arg |-> key, pre |-> ls, ret |-> <<>>, threw |-> FALSE]
    /\ UNCHANGED <<impl, now, gam, log, awarded, transfers, unlocks, timer, enh>>

\* recordSession called on any store: it returns or throws
RecordSessionCall(exerciseId, score) ==
    /\ Len(log) < MaxPageSessions
    /\ LET Returned(r) ==
               /\ ls' = r.ls
               /\ call' = Called("recordSession", [id |-> exerciseId, score |-> score], ls, r)
               /\ log' = IF r.threw THEN Append(log, [id |-> exerciseId, threw |-> TRUE])
                         ELSE Append(log, [id |-> exerciseId, threw |-> FALSE])
       IN  Returned(recordSession(ls, exerciseId, "easy", score, NoExtras, now))
    /\ UNCHANGED <<impl, now, gam, awarded, transfers, unlocks, timer, enh>>

ExportData ==
    /\ call' = [op |-> "exportData", arg |-> <<>>, pre |-> ls,
                ret |-> exportData(ls, now), threw |-> FALSE]
    /\ UNCHANGED <<ls, impl, now, gam, log, awarded, transfers, unlocks, timer, enh>>

GetStats ==
    /\ LET Returned(r) ==
               /\ ls' = r.ls
               /\ call' = Called("getStats", <<>>, ls, r)
       IN  Returned(getStats(ls))
    /\ UNCHANGED <<impl, now, gam, log, awarded, transfers, unlocks, timer, enh>>

NextFaults ==
    \/ \E c \in {<<>>, <<LS_UNAVAILABLE>>, <<LS_FULL>>} : StoreCondition(c)
    \/ \E m \in MalformedItems : CorruptItem(m)
    \/ \E key \in {"totalSessions", "streak"} : StorageGetInt(key)
    \/ StorageGet("lastActiveDate")
    \/ StorageSet("streak", <<"3">>)
    \/ \E e \in Registry : RecordSessionCall(e, MaxScore)
    \/ GetSessionHistory(DEFAULT_HISTORY_LIMIT)
    \/ ExportData
    \/ GetStats

SpecFaults == InitPage /\ [][NextFaults]_vars

\* the operations of the storage wrapper and of the ledger
GuardedOps ==
    {"storage.get", "storage.getInt", "storage.set", "recordSession",
     "getSessionHistory", "exportData", "getStats"}

\* C31: storage failures never surface as exceptions.  With the store
\* unavailable, full, or holding a malformed item, storage.get, getInt and
\* set, recordSession, getSessionHistory, exportData and getStats do not
\* throw; with the store unavailable a read yields the supplied default, and
\* with the store unavailable or full a write leaves every item as it was.
C31_StorageFailuresContained ==
    call.op \in GuardedOps =>
        /\ ~call.threw
        /\ call.pre[LS_STATE] # <<>> => ls = call.pre
        /\ (call.op = "storage.getInt" /\ call.pre[LS_STATE] = <<LS_UNAVAILABLE>>) =>
               call.ret = SUPPLIED_DEFAULT

\* the operations of the storage wrapper alone contain every failure
WrapperContainsFailures ==
    call.op \in {"storage.get", "storage.getInt", "storage.set"} =>
        /\ ~call.threw
        /\ call.pre[LS_STATE] # <<>> => ls = call.pre
        /\ (call.op = "storage.getInt" /\ call.pre[LS_STATE] = <<LS_UNAVAILABLE>>) =>
               call.ret = SUPPLIED_DEFAULT

\* the items that make the ledger throw are as the ledger writes them
LedgerItemsWellFormed(s) ==
    /\ s[PREFIX \o "lastActiveDate"] # <<NOT_A_DATE>>
    /\ \A e \in Registry :
           s[PREFIX \o sessionHistoryKey(e)] # <<JSON_stringify(JNum(5))>>

\* the ledger throws only over one of these items, read from a working store
LedgerThrowsOnlyOnMalformedItem ==
    (call.op \in GuardedOps /\ call.threw) =>
        (~LedgerItemsWellFormed(call.pre) /\ call.pre[LS_STATE] # <<LS_UNAVAILABLE>>)

\* recordSession has thrown over a history item that is no array
RecordSessionThrew ==
    /\ call.op = "recordSession" /\ call.threw
    /\ call.pre[PREFIX \o sessionHistoryKey(RegistrySeq[1])] = <<JSON_stringify(JNum(5))>>

\* recordSession has returned with the store unavailable and written nothing
RecordSessionWroteNothing ==
    /\ call.op = "recordSession" /\ ~call.threw
    /\ call.pre[LS_STATE] = <<LS_UNAVAILABLE>>
    /\ ls = call.pre

(***************************************************************************)
(* Behaviours of the gamification ledger next to another component that    *)
(* wipes the namespace: points are awarded and read, the store is wiped    *)
(* through the storage wrapper, the page is loaded again.                  *)
(***************************************************************************)
NextTruth ==
    \/ \E isPersonalBest \in BOOLEAN : AwardSessionPoints(isPersonalBest, 0)
    \/ GetCurrentStats
    \/ StorageClearAll
    \/ ClearAllFPRData
    \/ LoadPage

SpecTruth == InitPage /\ [][NextTruth]_vars

\* C33: the store is the sole source of truth.  awardSessionPoints adds what
\* it earns to the points the store holds when it is called, and
\* getCurrentStats reports the points the store holds, also when another
\* component has wiped or rewritten the store since the last call.
C33_StoreIsSourceOfTruth ==
    /\ call.op = "awardSessionPoints" =>
           call.ret.totalPoints
               = parseIntItem(call.pre, TOTAL_POINTS_KEY) + call.ret.pointsEarned
    /\ call.op = "getCurrentStats" =>
           call.ret.totalPoints = parseIntItem(ls, TOTAL_POINTS_KEY)

\* an award made after a wipe has added to the points of before the wipe
AwardOverWipedStore ==
    /\ call.op = "awardSessionPoints"
    /\ parseIntItem(call.pre, TOTAL_POINTS_KEY) = 0
    /\ call.ret.totalPoints > call.ret.pointsEarned

(***************************************************************************)
(* Behaviours of the session timer: the page calls the functions           *)
(* createSession returned in any order, the interval fires while it is     *)
(* set, and the tab is hidden and shown.  JavaScript runs each of them to  *)
(* completion before the next begins; the callbacks do not call back into  *)
(* the session.                                                            *)
(***************************************************************************)
MaxRunMs == 300
Durations == {0, 100, 250}
DurationInputs == {0 - 50, 150, 4000000}

\* the session as a call finds it: no callback invoked yet
Calling == [timer.ss EXCEPT !.out = <<>>]

\* the number of onEnd calls among the callbacks of one call
CountOnEnd(out) == Cardinality({i \in 1..Len(out) : out[i].cb = "onEnd"})

\* what has been observed of the session after op has left it as ss
Observed(op, ss) ==
    [ss |-> ss, op |-> op,
     ends |-> IF op = "start" THEN 0 ELSE Min(timer.ends + CountOnEnd(ss.out), 2),
     started |-> timer.started \/ op = "start",
     r0 |-> IF op = "start" THEN ss.remainingMs ELSE timer.r0,
     ticks |-> IF op = "start" THEN 0
               ELSE IF op = "tick" /\ timer.undisturbed THEN timer.ticks + 1
               ELSE timer.ticks,
     undisturbed |-> IF op = "start" THEN TRUE
                     ELSE op = "tick" /\ timer.undisturbed]

TimerStep(op, ss) ==
    /\ timer' = Observed(op, ss)
    /\ UNCHANGED <<ls, impl, now, call, gam, log, awarded, transfers, unlocks, enh>>

\* the interval set by start() fires
Tick ==
    /\ timer.ss.timerId
    /\ timer.ss.remainingMs <= MaxRunMs
    /\ TimerStep("tick", tick(Calling))

Start == TimerStep("start", start(Calling))

Stop == TimerStep("stop", stop(Calling))

Pause == TimerStep("pause", pause(Calling))

Resume == TimerStep("resume", resume(Calling))

End == TimerStep("end", end(Calling))

SetDuration(ms) == TimerStep("setDuration", setDuration(Calling, ms))

\* the tab is hidden or shown again
VisibilityChange(hidden) ==
    TimerStep("visibilitychange", visibilityChange(Calling, hidden))

Destroy == TimerStep("destroy", destroy(Calling))

NextTimer ==
    \/ Tick
    \/ Start
    \/ Stop
    \/ Pause
    \/ Resume
    \/ End
    \/ \E ms \in DurationInputs : SetDuration(ms)
    \/ \E hidden \in BOOLEAN : VisibilityChange(hidden)
    \/ Destroy

InitTimer ==
    /\ InitStore
    /\ impl = [ledger |-> "part_003", achievements |-> "first"]
    /\ timer \in {Created(createSession(d, a)) : d \in Durations, a \in BOOLEAN}
    /\ enh = NewEnhancement(0)

SpecTimer == InitTimer /\ [][NextTimer]_vars

\* C34: between one start() and the next (or from creation to the first
\* start()) onEnd is invoked at most once, whatever the order of ticks,
\* end(), pause(), resume(), setDuration() and stop()
C34_OnEndAtMostOnce == timer.ends <= 1

\* the ticks that take r milliseconds to zero
TicksToEnd(r) ==
    IF (r + TICK_MS - 1) \div TICK_MS < 1 THEN 1 ELSE (r + TICK_MS - 1) \div TICK_MS

\* end() called after the tick that reached zero has ended the session
C34_Witness ==
    /\ timer.op = "end"
    /\ timer.ends = 1
    /\ timer.ss.out = <<>>
    /\ timer.r0 > 0
    /\ timer.ticks = TicksToEnd(timer.r0)

\* C40: once isEnded() is true, pause(), resume() and the pause of a hidden
\* tab change neither isPaused() nor timeRemaining() and invoke no callback
C40_EndedSessionInert ==
    [][(isEnded(timer.ss) /\ timer'.op \in {"pause", "resume", "visibilitychange"})
         => /\ isPaused(timer'.ss) = isPaused(timer.ss)
            /\ timeRemaining(timer'.ss) = timeRemaining(timer.ss)
            /\ timer'.ss.out = <<>>]_vars

\* resume() on an ended session changes nothing
ResumeInertWhenEnded ==
    [][(isEnded(timer.ss) /\ timer'.op = "resume")
         => timer'.ss = Calling]_vars

\* pause() has paused an ended session and reported it
PausedAfterEnd ==
    /\ timer.op \in {"pause", "visibilitychange"}
    /\ isEnded(timer.ss)
    /\ timer.ss.out = <<Cb("onPauseChange", 1)>>

(***************************************************************************)
(* The timer with its interval firing for as long as it is set.            *)
(***************************************************************************)
SpecTimerLive == SpecTimer /\ WF_vars(Tick)

\* a session started with at most MaxRunMs remaining and only ticked since
Running == timer.started /\ timer.undisturbed /\ timer.r0 <= MaxRunMs

\* what holds of a session started with r0 remaining and only ticked since
EndsOnTime ==
    Running =>
        /\ timer.ticks <= TicksToEnd(timer.r0)
        /\ isEnded(timer.ss) <=> timer.ticks = TicksToEnd(timer.r0)
        /\ isEnded(timer.ss) =>
              /\ timer.ss.out = <<Cb("onTick", 0), Cb("onEnd", 0)>>
              /\ ~timer.ss.timerId
        /\ ~isEnded(timer.ss) => timer.ss.timerId

\* C39: after start() with r milliseconds remaining, if the ticks keep firing
\* and nothing else is called, the session ends after max(1, ceil(r / 100))
\* ticks with onTick(0) and then onEnd, the interval cleared and isEnded() true
C39_TimerEventuallyEnds ==
    /\ []EndsOnTime
    /\ Running ~> (isEnded(timer.ss) \/ ~timer.undisturbed)

\* a session started with 250 ms has ended at its third tick
C39_Witness ==
    /\ Running
    /\ timer.r0 = 250
    /\ timer.ticks = 3
    /\ isEnded(timer.ss)

\* C36: whenever importData returns {success: false, ...}, every stored key
\* has the value it had before the call
C36_FailedImportAtomic ==
    (call.op = "importData" /\ ~call.threw /\ ~call.ret.success) => ls = call.pre

\* an import refused as an invalid document has written nothing
InvalidDocumentWritesNothing ==
    (call.op = "importData" /\ call.arg = JNull)
        => (~call.ret.success /\ ls = call.pre)

\* an import has failed at a later exercise after writing an earlier one
FailedImportWrote ==
    /\ call.op = "importData"
    /\ ~call.ret.success
    /\ ls[PREFIX \o sessionKey(RegistrySeq[1])] # call.pre[PREFIX \o sessionKey(RegistrySeq[1])]

(***************************************************************************)
(* Behaviours of the session counters: from empty storage, sessions are    *)
(* recorded on registered exercises, progress is reset, and the export is  *)
(* imported again, over the store as it is or over a cleared one.          *)
(***************************************************************************)
NextSum ==
    \/ \E e \in Registry : RecordSession(e, "easy", MaxScore, NoExtras)
    \/ ResetProgress
    \/ \E wipe \in BOOLEAN : ExportThenImport(wipe)

SpecSum == InitLedger /\ [][NextSum]_vars

\* C38: the global session counter equals the sum of the per-exercise
\* session counters, so the total calculateStats reads and the total
\* checkAndUnlockAchievements sums are the same number
C38_TotalEqualsSum ==
    /\ storage_getInt(ls, "totalSessions", 0) = sumSessions(ls, 1)
    /\ calculateStats(ls).totalSessions = sumSessions(ls, 1)

\* sessions on two exercises have come back from a round trip
C38_Witness ==
    /\ call.op = "exportThenImport"
    /\ storage_getInt(ls, sessionKey(RegistrySeq[1]), 0) > 0
    /\ storage_getInt(ls, sessionKey(RegistrySeq[2]), 0) > 0
    /\ storage_getInt(ls, "totalSessions", 0) = MaxSessions

(***************************************************************************)
(* The notification queue of SessionEnhancementSystem,                     *)
(* src/js/session-enhancement.js.  A message is the sequence of the        *)
(* fragments of its template string.  processNotificationQueue is an async *)
(* function: it runs to its first await within the call, and each of its   *)
(* waiting loops goes on when its delay has elapsed.  A timeout never      *)
(* fires early and may fire late.                                          *)
(***************************************************************************)
DELAY_MS == 1500
DEBOUNCE_MS == 1000
MILESTONES ==
    << [sessions |-> 5, message |-> "You're building great habits!"],
       [sessions |-> 10, message |-> "Wonderful consistency!"],
       [sessions |-> 25, message |-> "You're making real progress!"],
       [sessions |-> 50, message |-> "Amazing dedication!"],
       [sessions |-> 100, message |-> "Incredible milestone reached!"] >>

\* PersonalBestTracker.incrementSessions(id, difficulty)
incrementSessions(e) == [e EXCEPT !.sessions = e.sessions + 1]

\* PersonalBestTracker.updateBest(id, difficulty, score): the store after it
updateBest(e, score) == IF score > e.best THEN [e EXCEPT !.best = score] ELSE e

\* MilestoneTracker.checkMilestones(totalSessions): the new milestones
checkMilestones(e, totalSessions) ==
    SelectSeq(MILESTONES, LAMBDA m : /\ totalSessions >= m.sessions
                                     /\ ~Includes(e.achievedMilestones, m.sessions))

\* this.notificationQueue.push(notification)
Push(e, notification) ==
    [e EXCEPT !.notificationQueue = Append(e.notificationQueue, notification),
              !.pushed = Append(e.pushed, notification)]

\* queueSessionCompleteNotification(isPersonalBest)
queueSessionCompleteNotification(e, isPersonalBest) ==
    Push(e, [type |-> "sessionComplete",
             message |-> IF isPersonalBest THEN <<"Great work-new personal best!">>
                         ELSE <<"Great work-another step forward">>,
             celebrationType |-> IF isPersonalBest THEN "personalBest"
                                 ELSE "sessionComplete"])

\* queuePersonalBestNotification(score)
queuePersonalBestNotification(e, score) ==
    Push(e, [type |-> "personalBest",
             message |-> <<"New personal best: ">> \o NatToStr(score) \o <<"!">>,
             celebrationType |-> "personalBest"])

\* queueMilestoneNotification(milestone)
queueMilestoneNotification(e, milestone) ==
    Push(e, [type |-> "milestone",
             message |-> NatToStr(milestone.sessions)
                             \o <<" sessions completed! ", milestone.message>>,
             celebrationType |-> "milestone"])

\* newMilestones.forEach(milestone => this.queueMilestoneNotification(milestone))
RECURSIVE QueueMilestones(_, _)
QueueMilestones(e, milestones) ==
    IF Len(milestones) = 0 THEN e
    ELSE QueueMilestones(queueMilestoneNotification(e, Head(milestones)),
                         Tail(milestones))

\* toast.show(message, {type, ...}): a toast of the same type and message
\* shown less than debounceMs ago suppresses this one.  toasts holds, for
\* the toasts shown less than debounceMs ago, the time since
toast_show(e, notification) ==
    LET debounceKey ==
            <<IF notification.type = "personalBest" THEN "success" ELSE "info", "_">>
                \o notification.message
    IN  IF \E a \in e.toasts : a.key = debounceKey
        THEN e
        ELSE [e EXCEPT !.toasts = e.toasts \cup {[key |-> debounceKey, age |-> 0]},
                       !.shown = Append(e.shown, notification)]

\* one turn of the loop of processNotificationQueue, up to its await, by the
\* loop at place i of the waiting loops (a new loop if there is none there);
\* after the last turn the flag is cleared and the loop is gone
DrainTurn(e, i) ==
    IF Len(e.notificationQueue) > 0
    THEN [toast_show([e EXCEPT !.notificationQueue = Tail(e.notificationQueue)],
                     Head(e.notificationQueue))
             EXCEPT !.loops = IF i > Len(e.loops) THEN Append(e.loops, DELAY_MS)
                              ELSE [e.loops EXCEPT ![i] = DELAY_MS]]
    ELSE [e EXCEPT !.isProcessingQueue = FALSE,
                   !.loops = SubSeq(e.loops, 1, i - 1)
                                 \o SubSeq(e.loops, i + 1, Len(e.loops))]

\* processNotificationQueue() starting a loop whether or not one is active
processNotificationQueue_unguarded(e) ==
    DrainTurn([e EXCEPT !.isProcessingQueue = TRUE], Len(e.loops) + 1)

\* processNotificationQueue(), as far as its first await
processNotificationQueue(e) ==
    IF e.isProcessingQueue THEN e
    ELSE DrainTurn([e EXCEPT !.isProcessingQueue = TRUE], Len(e.loops) + 1)

\* handleSessionComplete({score}) of the current exercise, whose counter is
\* the only one in the store
handleSessionComplete(e, score) ==
    LET Counted(e1) ==
            LET Checked(e2, isPersonalBest, newMilestones) ==
                    processNotificationQueue(
                        QueueMilestones(
                            IF isPersonalBest
                            THEN queuePersonalBestNotification(
                                     queueSessionCompleteNotification(e2, TRUE), score)
                            ELSE queueSessionCompleteNotification(e2, FALSE),
                            newMilestones))
            IN  Checked([updateBest(e1, score) EXCEPT !.achievedMilestones =
                             e1.achievedMilestones
                                 \o [i \in 1..Len(checkMilestones(e1, e1.sessions)) |->
                                         checkMilestones(e1, e1.sessions)[i].sessions]],
                        score > e1.best,
                        checkMilestones(e1, e1.sessions))
    IN  Counted(incrementSessions(e))

(***************************************************************************)
(* Behaviours of the completion screen: sessions complete one after the    *)
(* other, time passes, and the delays of the drain loops elapse.           *)
(***************************************************************************)
MaxCompletions == 3
TimeStep == 500
Scores == {1, 2}
StoredSessions == {0, 4}

EnhStep(e) ==
    /\ enh' = e
    /\ UNCHANGED <<ls, impl, now, call, gam, log, awarded, transfers, unlocks, timer>>

HandleSessionComplete(score) ==
    /\ Len(enh.pushed) < 2 * MaxCompletions
    /\ EnhStep(handleSessionComplete(enh, score))

\* the delay of the loop at place i has elapsed: the loop takes its next turn
DelayElapsed(i) ==
    /\ enh.loops[i] = 0
    /\ EnhStep(DrainTurn(enh, i))

\* TimeStep milliseconds pass
TimePasses ==
    /\ enh.toasts # {} \/ \E i \in 1..Len(enh.loops) : enh.loops[i] > 0
    /\ EnhStep([enh EXCEPT
           !.loops = [i \in 1..Len(enh.loops) |->
                          IF enh.loops[i] > TimeStep THEN enh.loops[i] - TimeStep ELSE 0],
           !.toasts = {[key |-> a.key, age |-> a.age + TimeStep] :
                           a \in {b \in enh.toasts : b.age + TimeStep < DEBOUNCE_MS}}])

NextQueue ==
    \/ \E score \in Scores : HandleSessionComplete(score)
    \/ \E i \in 1..Len(enh.loops) : DelayElapsed(i)
    \/ TimePasses

InitQueue ==
    /\ InitStore
    /\ impl = [ledger |-> "part_003", achievements |-> "first"]
    /\ timer = NoSession
    /\ enh \in {NewEnhancement(s) : s \in StoredSessions}

SpecQueue == InitQueue /\ [][NextQueue]_vars

\* C35: at most one drain loop is active at any time, and the notifications
\* shown are the notifications pushed, each once and in the order pushed:
\* what has been shown and what is still queued make up what was pushed, a
\* loop is active whenever a notification is queued, and once no loop is
\* active all of them have been shown
C35_QueueDrainsWithoutLoss ==
    /\ Len(enh.loops) <= 1
    /\ enh.shown \o enh.notificationQueue = enh.pushed
    /\ enh.isProcessingQueue <=> Len(enh.loops) = 1
    /\ Len(enh.notificationQueue) > 0 => enh.isProcessingQueue
    /\ ~enh.isProcessingQueue => enh.shown = enh.pushed

\* a second session has completed while the loop started by the first was
\* waiting after its first notification
C35_Witness ==
    /\ enh.isProcessingQueue
    /\ Len(enh.shown) = 1
    /\ enh.loops[1] > 0
    /\ Cardinality({i \in 1..Len(enh.pushed) : enh.pushed[i].type = "sessionComplete"}) = 2

\* the notifications of three sessions, a milestone among them, have all
\* been shown and the loop has finished
QueueDrained ==
    /\ ~enh.isProcessingQueue
    /\ Len(enh.shown) >= 4
    /\ \E i \in 1..Len(enh.shown) : enh.shown[i].type = "milestone"

Next ==
    \/ \E e \in RecordedExercises : SessionOnPage(e)
    \/ AdvanceClock
    \/ CheckAndUnlockAchievements(<<>>, <<>>)
    \/ AwardOnPage
    \/ InitializeForExercise(RegistrySeq[1])
    \/ MarkExerciseTried(RegistrySeq[1])
    \/ \E wipe \in BOOLEAN : ExportThenImport(wipe)
    \/ \E data \in ImportDocs : ImportData(data)
    \/ ResetOnPage

Spec == InitLedger /\ [][Next]_vars

(***************************************************************************)
(* Properties of the transfer operations.                                  *)
(***************************************************************************)
\* C3: export/import round trip.  In any state reached through sessions,
\* streak updates, achievement unlocks and point awards, importing the
\* exported documents, into the same store or an emptied one, leaves the
\* same points, streak, per-exercise bests and session counts and the same
\* achievement set (part_003's exportData and importData).
C3_ExportImportRoundTrip ==
    (call.op = "exportThenImport" /\ impl.ledger = "part_003")
        => Observable(ls, gam) = call.arg.before

\* error messages that mention the version
VersionMessages == {"Incompatible version"}

\* C4: version mismatch is a hard failure.  importData of a document whose
\* version tag is not 1 returns a failure whose error mentions the version,
\* and leaves every stored key as it was.
C4_VersionMismatchFails ==
    (/\ call.op = "importData"
     /\ HasField(call.arg, "version")
     /\ Field(call.arg, "version") # JNum(1))
        => /\ call.ret.success = FALSE
           /\ call.ret.error \in VersionMessages
           /\ ls = call.pre

\* every key of the namespace reads back in a store as on a fresh install
ReadsAsFreshInstall(s) ==
    /\ \A e \in ExerciseArgs :
           /\ storage_getInt(s, sessionKey(e), 0) = 0
           /\ storage_getInt(s, bestKey(e), 0) = 0
           /\ parseOrEmpty(storage_get(s, sessionHistoryKey(e), <<>>)) = JArr(<<>>)
    /\ storage_getInt(s, "totalSessions", 0) = 0
    /\ storage_getInt(s, "streak", 0) = 0
    /\ storage_get(s, "lastActiveDate", <<>>) \in {<<>>, <<STR_empty>>}
    /\ ~getBool(s, "newPersonalBest", FALSE)
    /\ getUnlockedSet(s) = <<>>
    /\ \A a \in AchievementSet : storage_get(s, achievementDateKey(a), <<>>) = <<>>
    /\ triedCount(s) = 0
    /\ \A e \in Registry, d \in DifficultySet :
           /\ storage_get(s, unlockKey(e, d), <<>>) = <<>>
           /\ storage_get(s, perfKey(e, d), <<>>) = <<>>
    /\ parseIntItem(s, TOTAL_POINTS_KEY) = 0
    /\ parseIntItem(s, SESSIONS_COMPLETED_KEY) = 0

\* C10: reset completeness.  After resetProgress every key of the namespace
\* (counters, bests, histories, streak and last active day, achievements and
\* their dates, tried list, unlock and performance state, points) reads back
\* as on a fresh install, in both implementations.
C10_ResetCompleteness ==
    call.op = "resetProgress" => ReadsAsFreshInstall(ls)

====
